---- MODULE Spec2Model ----
(***************************************************************************)
(* A model of helm-image-updater: tag and stack classification, cloud      *)
(* detection, the change calculator, the plan builder, the two grouping    *)
(* engines (GroupingStrategyHandler and plan_builder._group_changes_for_   *)
(* prs), the plan executor and the auto-merge retry loops.                 *)
(*                                                                         *)
(* Strings that the code only compares (stack names, cloud providers,      *)
(* enum values) are TLA+ strings.  Strings the code takes apart (image     *)
(* tags, branch names) are sequences of one-character strings.             *)
(***************************************************************************)
EXTENDS Integers, Sequences, FiniteSets, TLC

VARIABLES
    ctx,      \* SpecGroup, SpecCloud: the GroupingContext (config, plan, stack_changes, metadata)
    grouped,  \* SpecGroup, SpecCloud: which engine or classification ran and what it returned
    calc,     \* SpecCalc: the change calculator's inputs, position and results
    run,      \* SpecPlan, SpecStrategy: the environment, the manifests and prepare_plan's outcome
    exe,      \* SpecExec: the plan handed to execute_plan, the calls made and the result
    mrg,      \* SpecMerge: an auto-merge loop, the pull request and the API's answers
    cls       \* SpecClassify, SpecTag: the names or the tag, the position and the classifications

vars == <<ctx, grouped, calc, run, exe, mrg, cls>>

\* What the actions of one specification leave alone
notGroup == <<calc, run, exe, mrg, cls>>

notCalc == <<ctx, grouped, run, exe, mrg, cls>>

notPlan == <<ctx, grouped, calc, exe, mrg, cls>>

notExec == <<ctx, grouped, calc, run, mrg, cls>>

notMerge == <<ctx, grouped, calc, run, exe, cls>>

notClassify == <<ctx, grouped, calc, run, exe, mrg>>

\* The variables of the other specifications, at rest
GroupIdle == ctx = <<>> /\ grouped = <<>>

CalcIdle == calc = <<>>

PlanIdle == run = <<>>

ExecIdle == exe = <<>>

MergeIdle == mrg = <<>>

ClassifyIdle == cls = <<>>

(***************************************************************************)
(* Generic helpers on sequences.                                           *)
(***************************************************************************)
Range(s) == {s[i] : i \in DOMAIN s}

RECURSIVE SelectSeqBy(_, _, _)
\* [x for x in s if Keep(x)] with Keep given as the set of kept elements' indexes
SelectSeqBy(s, keep, i) ==
    IF i > Len(s) THEN <<>>
    ELSE (IF i \in keep THEN <<s[i]>> ELSE <<>>) \o SelectSeqBy(s, keep, i + 1)

RECURSIVE Flatten(_)
Flatten(ss) == IF ss = <<>> THEN <<>> ELSE Head(ss) \o Flatten(Tail(ss))

(***************************************************************************)
(* config.py: the static tables.                                           *)
(***************************************************************************)
DEV_STACK_MAPPING ==
    [gcp   |-> "dev-keboola-gcp-us-central1",
     azure |-> "kbc-testing-azure-east-us-2",
     aws   |-> "dev-keboola-aws-eu-west-1"]

\* dict iteration order of DEV_STACK_MAPPING (insertion order)
DEV_STACK_MAPPING_keys == <<"gcp", "azure", "aws">>

SUPPORTED_CLOUD_PROVIDERS == <<"aws", "azure", "gcp">>

EXCLUDED_STACKS ==
    {"dev-keboola-gcp-us-east1-e2e", "dev-keboola-azure-east-us-2-e2e",
     "dev-keboola-aws-us-east-1-e2e"}

c_canary_orion == <<"c","a","n","a","r","y","-","o","r","i","o","n">>

\* prefix -> {stack, base_branch}; the prefix and the branch are character
\* sequences because the code matches them against pieces of the image tag
CANARY_STACKS ==
    (c_canary_orion :> [stack |-> "dev-keboola-canary-orion",
                        base_branch |-> c_canary_orion])

IGNORED_FOLDERS == {".venv", "aws", ".git", ".github", "utils", "docs", "apps"}

c_main == <<"m","a","i","n">>

(***************************************************************************)
(* stack_classification.py                                                 *)
(***************************************************************************)
canary_stack_names == {CANARY_STACKS[p].stack : p \in DOMAIN CANARY_STACKS}

dev_stack_names == {DEV_STACK_MAPPING[c] : c \in DOMAIN DEV_STACK_MAPPING}

\* classify_stack counting an excluded stack as a production stack
classify_stack_excludedIsProduction(stack_name) ==
    [name          |-> stack_name,
     is_dev        |-> stack_name \in dev_stack_names,
     is_production |-> /\ stack_name \notin IGNORED_FOLDERS
                       /\ stack_name \notin dev_stack_names
                       /\ stack_name \notin canary_stack_names,
     is_canary     |-> stack_name \in canary_stack_names,
     is_excluded   |-> stack_name \in EXCLUDED_STACKS,
     is_ignored    |-> stack_name \in IGNORED_FOLDERS]

classify_stack(stack_name) ==
    [name          |-> stack_name,
     is_dev        |-> stack_name \in dev_stack_names,
     is_production |-> /\ stack_name \notin IGNORED_FOLDERS
                       /\ stack_name \notin EXCLUDED_STACKS
                       /\ stack_name \notin dev_stack_names
                       /\ stack_name \notin canary_stack_names,
     is_canary     |-> stack_name \in canary_stack_names,
     is_excluded   |-> stack_name \in EXCLUDED_STACKS,
     is_ignored    |-> stack_name \in IGNORED_FOLDERS]

(***************************************************************************)
(* Character-sequence versions of the str methods the code uses.           *)
(***************************************************************************)
\* s.startswith(p)
startswith(s, p) == Len(s) >= Len(p) /\ SubSeq(s, 1, Len(p)) = p

RECURSIVE splitFrom(_, _, _, _)
\* s.split(sep) for a one-character sep: the pieces between the separators
splitFrom(s, sep, i, piece) ==
    IF i > Len(s) THEN <<piece>>
    ELSE IF s[i] = sep THEN <<piece>> \o splitFrom(s, sep, i + 1, <<>>)
    ELSE splitFrom(s, sep, i + 1, Append(piece, s[i]))

split(s, sep) == splitFrom(s, sep, 1, <<>>)

c_canary_dash == <<"c","a","n","a","r","y","-">>

(***************************************************************************)
(* models.py: the enums, by value.                                         *)
(***************************************************************************)
UpdateStrategy == {"dev", "production", "canary", "override", "invalid"}

GroupingStrategy == {"legacy", "single", "stack", "cloud-multi-stage"}

PRType == {"standard", "multi_stage_dev", "multi_stage_prod", "canary"}

(***************************************************************************)
(* cloud_detection.py.  shared is what io_layer.read_shared_values_yaml    *)
(* returns per stack: "absent" (no document), "nofield" (a document        *)
(* without cloudProvider) or the declared cloudProvider.  The result is    *)
(* the provider, or "raise" for the ValueError.                            *)
(***************************************************************************)
RECURSIVE dev_cloud_from(_, _)
\* the first cloud of DEV_STACK_MAPPING whose dev stack is `stack`, or "None"
dev_cloud_from(stack, i) ==
    IF i > Len(DEV_STACK_MAPPING_keys) THEN "None"
    ELSE IF DEV_STACK_MAPPING[DEV_STACK_MAPPING_keys[i]] = stack
         THEN DEV_STACK_MAPPING_keys[i]
         ELSE dev_cloud_from(stack, i + 1)

\* get_stack_cloud_provider taking a dev stack's provider from the mapping
\* when the document does not give a supported one
get_stack_cloud_provider_devFromMapping(stack, shared) ==
    LET dev_cloud  == dev_cloud_from(stack, 1)
        yaml_cloud == shared[stack]
    IN  IF dev_cloud # "None" THEN dev_cloud
        ELSE IF yaml_cloud \in {"absent", "nofield"} THEN "raise"
        ELSE IF yaml_cloud \notin Range(SUPPORTED_CLOUD_PROVIDERS) THEN "raise"
        ELSE yaml_cloud

get_stack_cloud_provider(stack, shared) ==
    LET dev_cloud  == dev_cloud_from(stack, 1)
        yaml_cloud == shared[stack]
    IN  IF yaml_cloud \in {"absent", "nofield"} THEN "raise"
        ELSE IF yaml_cloud \notin Range(SUPPORTED_CLOUD_PROVIDERS) THEN "raise"
        ELSE IF dev_cloud # "None" /\ dev_cloud # yaml_cloud THEN "raise"
        ELSE yaml_cloud

(***************************************************************************)
(* The grouping engines.  A stack change sc is [stack, file_change]; a PR  *)
(* group is [stacks, changes, base_branch, pr_type, cloud_provider] with   *)
(* cloud_provider "None" when the dict has no such key.  An engine returns *)
(* [status |-> "ok", groups |-> <<...>>] or, when cloud detection raises,  *)
(* [status |-> "raise", groups |-> <<>>].                                  *)
(***************************************************************************)
Stacks(changes) == [i \in DOMAIN changes |-> changes[i].stack]

Returned(groups) == [status |-> "ok", groups |-> groups]

Raised == [status |-> "raise", groups |-> <<>>]

\* grouping_strategies.py: helper methods ---------------------------------
_create_single_pr_group(stack_changes, base_branch, pr_type) ==
    << [stacks         |-> Stacks(stack_changes),
        changes        |-> stack_changes,
        base_branch    |-> base_branch,
        pr_type        |-> pr_type,
        cloud_provider |-> "None"] >>

_create_per_stack_groups(stack_changes) ==
    [i \in DOMAIN stack_changes |->
        [stacks         |-> <<stack_changes[i].stack>>,
         changes        |-> <<stack_changes[i]>>,
         base_branch    |-> c_main,
         pr_type        |-> "standard",
         cloud_provider |-> "None"]]

\* _get_canary_base_branch answering "main" for every tag
_get_canary_base_branch_alwaysMain(image_tag) == c_main

\* canary prefix -> base branch, "main" when the tag names no registered prefix
_get_canary_base_branch(image_tag) ==
    IF image_tag # <<>> /\ startswith(image_tag, c_canary_dash)
    THEN LET parts == split(image_tag, "-")
             canary_tag_prefix ==
                 IF Len(parts) > 1 THEN c_canary_dash \o parts[2] ELSE <<>>
         IN  IF canary_tag_prefix \in DOMAIN CANARY_STACKS
             THEN CANARY_STACKS[canary_tag_prefix].base_branch
             ELSE c_main
    ELSE c_main

\* CellChanges with the stage test dropped: a stack lands in the prod and in
\* the dev cell of its cloud
CellChanges_anyStage(stack_changes, cloudOf, stageOf, cloud, stage) ==
    SelectSeqBy(stack_changes,
                {i \in DOMAIN stack_changes : cloudOf[i] = cloud},
                1)

\* The (cloud, stage) cell: the stack changes of that cloud and stage, in
\* input order.  cloudOf and stageOf give each change's cloud and stage.
CellChanges(stack_changes, cloudOf, stageOf, cloud, stage) ==
    SelectSeqBy(stack_changes,
                {i \in DOMAIN stack_changes :
                     cloudOf[i] = cloud /\ stageOf[i] = stage},
                1)

\* CellOrder with the stage loop reversed: dev groups first
CellOrder_devFirst ==
    << <<"aws", "dev">>,  <<"azure", "dev">>,  <<"gcp", "dev">>,
       <<"aws", "prod">>, <<"azure", "prod">>, <<"gcp", "prod">> >>

\* for stage in ["prod","dev"]: for cloud in ["aws","azure","gcp"]: one group
\* per non-empty cell
CellOrder ==
    << <<"aws", "prod">>, <<"azure", "prod">>, <<"gcp", "prod">>,
       <<"aws", "dev">>,  <<"azure", "dev">>,  <<"gcp", "dev">> >>

EmitCells(stack_changes, cloudOf, stageOf) ==
    Flatten([k \in DOMAIN CellOrder |->
        LET cloud   == CellOrder[k][1]
            stage   == CellOrder[k][2]
            changes == CellChanges(stack_changes, cloudOf, stageOf, cloud, stage)
        IN  IF changes # <<>>
            THEN << [stacks         |-> Stacks(changes),
                     changes        |-> changes,
                     base_branch    |-> c_main,
                     pr_type        |-> IF stage = "dev" THEN "multi_stage_dev"
                                                         ELSE "multi_stage_prod",
                     cloud_provider |-> cloud] >>
            ELSE <<>>])

_apply_single_grouping(context) ==
    Returned(_create_single_pr_group(context.stack_changes, c_main, "standard"))

_apply_stack_grouping(context) ==
    Returned(_create_per_stack_groups(context.stack_changes))

_apply_cloud_multi_stage_grouping(context) ==
    LET stack_changes == context.stack_changes
        cloudOf == [i \in DOMAIN stack_changes |->
                       get_stack_cloud_provider(stack_changes[i].stack, context.shared)]
        stageOf == [i \in DOMAIN stack_changes |->
                       IF classify_stack(stack_changes[i].stack).is_dev
                       THEN "dev" ELSE "prod"]
    IN  IF context.plan.strategy # "production"
        THEN _apply_single_grouping(context)
        ELSE IF \E i \in DOMAIN stack_changes : cloudOf[i] = "raise"
        THEN Raised
        ELSE Returned(EmitCells(stack_changes, cloudOf, stageOf))

\* _apply_legacy_grouping with a dev run grouped by the automerge value, as a
\* production run is
_apply_legacy_grouping_devByAutomerge(context) ==
    LET plan == context.plan
        config == context.config
        stack_changes == context.stack_changes
    IN  IF plan.strategy = "canary"
        THEN Returned(_create_single_pr_group(
                 stack_changes, _get_canary_base_branch(plan.image_tag), "canary"))
        ELSE IF config.multi_stage
        THEN _apply_cloud_multi_stage_grouping(context)
        ELSE IF plan.strategy \in {"dev", "production"}
        THEN (IF config.automerge
              THEN Returned(_create_single_pr_group(stack_changes, c_main, "standard"))
              ELSE Returned(_create_per_stack_groups(stack_changes)))
        ELSE Returned(_create_single_pr_group(stack_changes, c_main, "standard"))

_apply_legacy_grouping(context) ==
    LET plan == context.plan
        config == context.config
        stack_changes == context.stack_changes
    IN  IF plan.strategy = "canary"
        THEN Returned(_create_single_pr_group(
                 stack_changes, _get_canary_base_branch(plan.image_tag), "canary"))
        ELSE IF config.multi_stage
        THEN _apply_cloud_multi_stage_grouping(context)
        ELSE IF plan.strategy = "dev"
        THEN Returned(_create_single_pr_group(stack_changes, c_main, "standard"))
        ELSE IF plan.strategy = "production"
        THEN (IF config.automerge
              THEN Returned(_create_single_pr_group(stack_changes, c_main, "standard"))
              ELSE Returned(_create_per_stack_groups(stack_changes)))
        ELSE Returned(_create_single_pr_group(stack_changes, c_main, "standard"))

\* GroupingStrategyHandler.group_changes
group_changes(context) ==
    LET strategy == context.config.grouping_strategy
    IN  IF context.plan.override_stack # ""
        THEN _apply_single_grouping(context)
        ELSE IF strategy = "legacy" THEN _apply_legacy_grouping(context)
        ELSE IF strategy = "single" THEN _apply_single_grouping(context)
        ELSE IF strategy = "stack" THEN _apply_stack_grouping(context)
        ELSE _apply_cloud_multi_stage_grouping(context)

\* plan_builder.py ---------------------------------------------------------
_group_changes_for_prs(context) ==
    LET plan == context.plan
        config == context.config
        stack_changes == context.stack_changes
        cloudOf == [i \in DOMAIN stack_changes |->
                       get_stack_cloud_provider(stack_changes[i].stack, context.shared)]
        stageOf == [i \in DOMAIN stack_changes |->
                       IF stack_changes[i].stack \in dev_stack_names
                       THEN "dev" ELSE "prod"]
        \* cloud_groups[cloud][category], filled in input order
        cloud_groups(cloud, category) ==
            SelectSeqBy(stack_changes,
                        {i \in DOMAIN stack_changes :
                             cloudOf[i] = cloud /\ stageOf[i] = category},
                        1)
        \* for category in ["prod","dev"]: for cloud in ["aws","azure","gcp"]
        categoryCloud ==
            << <<"prod", "aws">>, <<"prod", "azure">>, <<"prod", "gcp">>,
               <<"dev", "aws">>,  <<"dev", "azure">>,  <<"dev", "gcp">> >>
        one(base_branch, pr_type) ==
            << [stacks         |-> Stacks(stack_changes),
                changes        |-> stack_changes,
                base_branch    |-> base_branch,
                pr_type        |-> pr_type,
                cloud_provider |-> "None"] >>
    IN  IF plan.strategy = "canary"
        THEN Returned(one(_get_canary_base_branch(plan.image_tag), "canary"))
        ELSE IF plan.multi_stage /\ plan.strategy = "production"
        THEN (IF \E i \in DOMAIN stack_changes : cloudOf[i] = "raise"
              THEN Raised
              ELSE Returned(Flatten([k \in DOMAIN categoryCloud |->
                       LET category == categoryCloud[k][1]
                           cloud    == categoryCloud[k][2]
                           changes  == cloud_groups(cloud, category)
                       IN  IF changes # <<>>
                           THEN << [stacks         |-> Stacks(changes),
                                    changes        |-> changes,
                                    base_branch    |-> c_main,
                                    pr_type        |-> IF category = "dev"
                                                       THEN "multi_stage_dev"
                                                       ELSE "multi_stage_prod",
                                    cloud_provider |-> cloud] >>
                           ELSE <<>>])))
        ELSE IF Len(stack_changes) = 1 \/ plan.strategy \in {"dev", "override"}
        THEN Returned(one(c_main, "standard"))
        ELSE IF config.automerge
        THEN Returned(one(c_main, "standard"))
        ELSE Returned([i \in DOMAIN stack_changes |->
                         [stacks         |-> <<stack_changes[i].stack>>,
                          changes        |-> <<stack_changes[i]>>,
                          base_branch    |-> c_main,
                          pr_type        |-> "standard",
                          cloud_provider |-> "None"]])

(***************************************************************************)
(* The stacks on disk.  _discover_stacks returns sorted(os.listdir), so    *)
(* every list of stacks the program handles is a subsequence of the sorted *)
(* directory listing.                                                      *)
(***************************************************************************)
NProd == 2

prod_stack(i) == "com-keboola-prod-" \o ToString(i)

ProdStacks == {prod_stack(i) : i \in 1..NProd}

\* sorted(): "com-..." < "dev-keboola-aws..." < "dev-keboola-canary..." <
\* "dev-keboola-gcp-us-central1" < "kbc-..."
SortedStacks ==
    [i \in 1..NProd |-> prod_stack(i)] \o
    << "dev-keboola-aws-eu-west-1", "dev-keboola-canary-orion",
       "dev-keboola-gcp-us-central1", "kbc-testing-azure-east-us-2" >>

c_chart == <<"s","v","c">>

tag_file_path(stack, helm_chart) == <<stack, helm_chart, "tag.yaml">>

c_dev_1 == <<"d","e","v","-","1">>

c_production_1 == <<"p","r","o","d","u","c","t","i","o","n","-","1">>

c_canary_orion_1 == c_canary_orion \o <<"-","1">>

(***************************************************************************)
(* SpecGroup: the grouping engines as functions of their inputs.  Init     *)
(* draws a GroupingContext; each action applies one engine to it.          *)
(***************************************************************************)
\* shared-values.yaml per stack: the dev and canary stacks declare their own
\* cloud, a production stack declares any provider or has no document
SharedChoices ==
    {sh \in [Range(SortedStacks) -> {"aws", "azure", "gcp", "absent"}] :
        /\ \A c \in DOMAIN DEV_STACK_MAPPING : sh[DEV_STACK_MAPPING[c]] = c
        /\ sh["dev-keboola-canary-orion"] = "gcp"}

\* The non-empty lists of changed stacks a run with update strategy us can
\* reach the grouping step with: a subsequence of the stacks the strategy
\* targets (a target already up to date is dropped), a single stack for an
\* override
ChangedLists(us) ==
    LET targeted ==
            {i \in DOMAIN SortedStacks :
                LET c == classify_stack(SortedStacks[i])
                IN  CASE us = "dev"        -> c.is_dev
                      [] us = "production" -> ~c.is_canary /\ ~c.is_excluded
                      [] us = "canary"     -> c.is_canary
                      [] OTHER             -> TRUE}
    IN  {SelectSeqBy(SortedStacks, K, 1) :
            K \in {K \in SUBSET targeted :
                      K # {} /\ (us = "override" => Cardinality(K) = 1)}}

GroupInit ==
    /\ \E gs \in GroupingStrategy, us \in {"dev", "production", "canary", "override"},
          am \in BOOLEAN, ms \in BOOLEAN, sh \in SharedChoices :
        \E cl \in ChangedLists(us) :
          ctx = [config |-> [grouping_strategy |-> gs,
                             automerge         |-> am,
                             multi_stage       |-> ms],
                 plan   |-> [strategy       |-> us,
                             override_stack |-> IF us = "override" THEN cl[1] ELSE "",
                             image_tag      |-> CASE us = "dev" -> c_dev_1
                                                  [] us = "canary" -> c_canary_orion_1
                                                  [] OTHER -> c_production_1,
                             multi_stage    |-> ms],
                 stack_changes |->
                     [i \in DOMAIN cl |->
                         [stack       |-> cl[i],
                          file_change |-> tag_file_path(cl[i], c_chart)]],
                 shared |-> sh]
    /\ grouped = [by |-> "none", status |-> "pending", groups |-> <<>>]
    /\ CalcIdle /\ PlanIdle /\ ExecIdle /\ MergeIdle /\ ClassifyIdle

HandlerGroup ==
    /\ grouped.by = "none"
    /\ grouped' = [by |-> "handler"] @@ group_changes(ctx)
    /\ UNCHANGED <<ctx, notGroup>>

BuilderGroup ==
    /\ grouped.by = "none"
    /\ grouped' = [by |-> "builder"] @@ _group_changes_for_prs(ctx)
    /\ UNCHANGED <<ctx, notGroup>>

GroupNext == HandlerGroup \/ BuilderGroup

SpecGroup == GroupInit /\ [][GroupNext]_vars

(***************************************************************************)
(* Claims about the grouping engines (SpecGroup).                          *)
(***************************************************************************)
InputStacks == Range(Stacks(ctx.stack_changes))

\* How many (group, position) places of the returned groups hold stack s
Occurrences(s) ==
    Cardinality({gk \in {<<g, k>> : g \in DOMAIN grouped.groups, k \in 1..Len(SortedStacks)} :
                    /\ gk[2] \in DOMAIN grouped.groups[gk[1]].stacks
                    /\ grouped.groups[gk[1]].stacks[gk[2]] = s})

AllCloudsDetected ==
    \A i \in DOMAIN ctx.stack_changes :
        LET declared == ctx.shared[ctx.stack_changes[i].stack]
        IN  /\ declared \in {"aws", "azure", "gcp"}
            /\ \A c \in DOMAIN DEV_STACK_MAPPING :
                   DEV_STACK_MAPPING[c] = ctx.stack_changes[i].stack => declared = c

\* C1: whichever engine ran, with whatever grouping strategy, update strategy,
\* automerge value and multi-stage flag, if cloud detection succeeds for every
\* changed stack the engine returns groups, and the returned groups partition
\* the changed stacks: each changed stack is in exactly one place of exactly
\* one group and no group holds a stack that was not changed.
C1_GroupsPartitionChangedStacks ==
    grouped.by # "none" =>
        /\ AllCloudsDetected => grouped.status = "ok"
        /\ grouped.status = "ok" =>
              /\ \A s \in InputStacks : Occurrences(s) = 1
              /\ \A g \in DOMAIN grouped.groups :
                     Range(grouped.groups[g].stacks) \subseteq InputStacks

\* C1's case: the handler split five or more changed stacks into at least
\* three groups, one of them holding two stacks
C1_Witness ==
    /\ grouped.by = "handler"
    /\ grouped.status = "ok"
    /\ Len(ctx.stack_changes) >= 5
    /\ Len(grouped.groups) >= 3
    /\ \E g \in DOMAIN grouped.groups : Len(grouped.groups[g].stacks) >= 2

\* The run grouped by cloud x stage
CloudStageGrouping ==
    /\ ctx.plan.strategy = "production"
    /\ \/ /\ grouped.by = "handler"
          /\ ctx.plan.override_stack = ""
          /\ \/ ctx.config.grouping_strategy = "cloud-multi-stage"
             \/ ctx.config.grouping_strategy = "legacy" /\ ctx.config.multi_stage
       \/ /\ grouped.by = "builder"
          /\ ctx.plan.multi_stage

ProviderRank(cloud) == CHOOSE k \in 1..3 : <<"aws", "azure", "gcp">>[k] = cloud

\* The changed stacks of a cell, read off the declared metadata and the dev table
CellStacks(cloud, isDev) ==
    {s \in InputStacks :
        /\ ctx.shared[s] = cloud
        /\ (s \in {DEV_STACK_MAPPING.gcp, DEV_STACK_MAPPING.azure, DEV_STACK_MAPPING.aws}) = isDev}

\* C2: in cloud x stage grouping every multi_stage_prod group precedes every
\* multi_stage_dev group, within a stage the groups follow the provider order
\* aws, azure, gcp, and there is exactly one group per non-empty (cloud, stage)
\* cell, holding that cell's stacks, and none for an empty cell (at most 6).
C2_ProdBeforeDevInProviderOrder ==
    (CloudStageGrouping /\ grouped.status = "ok") =>
        LET gs == grouped.groups IN
        /\ Len(gs) <= 6
        /\ \A i \in DOMAIN gs :
              /\ gs[i].pr_type \in {"multi_stage_prod", "multi_stage_dev"}
              /\ gs[i].cloud_provider \in {"aws", "azure", "gcp"}
              /\ gs[i].stacks # <<>>
              /\ Range(gs[i].stacks) =
                     CellStacks(gs[i].cloud_provider, gs[i].pr_type = "multi_stage_dev")
        /\ \A i, j \in DOMAIN gs :
              i < j =>
                 /\ ~(gs[i].pr_type = "multi_stage_dev" /\ gs[j].pr_type = "multi_stage_prod")
                 /\ gs[i].pr_type = gs[j].pr_type =>
                        ProviderRank(gs[i].cloud_provider) < ProviderRank(gs[j].cloud_provider)
        /\ \A cloud \in {"aws", "azure", "gcp"}, isDev \in BOOLEAN :
              CellStacks(cloud, isDev) # {} =>
                 \E i \in DOMAIN gs :
                    /\ gs[i].cloud_provider = cloud
                    /\ (gs[i].pr_type = "multi_stage_dev") = isDev

\* C2's case: a cloud x stage grouping that returned prod and dev groups of
\* several providers
C2_Witness ==
    /\ CloudStageGrouping
    /\ grouped.status = "ok"
    /\ Len(grouped.groups) >= 4
    /\ \E i, j \in DOMAIN grouped.groups :
          /\ grouped.groups[i].pr_type = "multi_stage_prod"
          /\ grouped.groups[j].pr_type = "multi_stage_prod"
          /\ grouped.groups[i].cloud_provider # grouped.groups[j].cloud_provider

\* Legacy grouping of a DEV or PRODUCTION run without the multi-stage flag
\* and without an override, by either engine
LegacyGrouping ==
    /\ grouped.by # "none"
    /\ ctx.config.grouping_strategy = "legacy"
    /\ ~ctx.config.multi_stage /\ ~ctx.plan.multi_stage
    /\ ctx.plan.override_stack = ""
    /\ ctx.plan.strategy \in {"dev", "production"}

\* C18: under LEGACY grouping without canary and without the multi-stage
\* flag, a DEV run gets exactly one group holding all changed stacks
\* whatever the automerge value; a PRODUCTION run gets exactly one group
\* holding all changed stacks when automerge is requested and exactly one
\* singleton group per changed stack when it is not; every group has pr_type
\* standard and base branch main.
C18_LegacyGroupCount ==
    LegacyGrouping =>
        LET groups  == grouped.groups
            changed == Stacks(ctx.stack_changes)
            single  == Len(groups) = 1 /\ groups[1].stacks = changed
        IN  /\ grouped.status = "ok"
            /\ ctx.plan.strategy = "dev" => single
            /\ ctx.plan.strategy = "production" /\ ctx.config.automerge => single
            /\ ctx.plan.strategy = "production" /\ ~ctx.config.automerge =>
                  /\ Len(groups) = Len(changed)
                  /\ \A i \in DOMAIN groups : groups[i].stacks = <<changed[i]>>
            /\ \A i \in DOMAIN groups :
                  groups[i].pr_type = "standard" /\ groups[i].base_branch = c_main

\* The handler splits a production run without automerge into three or more
\* singleton groups
C18_Witness ==
    /\ LegacyGrouping
    /\ grouped.by = "handler"
    /\ ctx.plan.strategy = "production" /\ ~ctx.config.automerge
    /\ Len(grouped.groups) >= 3

(***************************************************************************)
(* cloud_detection.py: classify_stacks_by_cloud.  The result is the dict   *)
(* cloud -> [StackCloudInfo], or the ValueError with the stack it is       *)
(* raised for.                                                             *)
(***************************************************************************)
StackCloudInfo(stack, cloud_provider, is_dev) ==
    [stack |-> stack, cloud_provider |-> cloud_provider, is_dev |-> is_dev]

RECURSIVE classify_from(_, _, _, _)
\* The loop of classify_stacks_by_cloud from the i-th stack on
classify_from(stacks, shared, i, result) ==
    IF i > Len(stacks) THEN [status |-> "ok", result |-> result, raised_for |-> ""]
    ELSE LET stack  == stacks[i]
             cloud  == get_stack_cloud_provider(stack, shared)
             is_dev == stack \in dev_stack_names
         IN  IF cloud = "raise"
             THEN [status |-> "raise", result |-> <<>>, raised_for |-> stack]
             ELSE classify_from(stacks, shared, i + 1,
                      [result EXCEPT ![cloud] =
                          Append(@, StackCloudInfo(stack, cloud, is_dev))])

classify_stacks_by_cloud(stacks, shared) ==
    classify_from(stacks, shared, 1, [aws |-> <<>>, azure |-> <<>>, gcp |-> <<>>])

(***************************************************************************)
(* SpecCloud: cloud detection on shared-values.yaml documents of every     *)
(* kind.  Init draws a list of stacks of a multi-stage production run and, *)
(* per stack, its document; the actions classify the list and group it     *)
(* with either engine.                                                     *)
(***************************************************************************)
\* Two production stacks and two dev stacks, sorted
CloudStacks ==
    <<prod_stack(1), prod_stack(2), "dev-keboola-aws-eu-west-1",
      "dev-keboola-gcp-us-central1">>

\* A document: none, one without cloudProvider, one with an unsupported
\* provider, one with a supported provider
SharedDocuments == {"absent", "nofield", "ibm", "aws", "gcp"}

CloudInit ==
    /\ \E K \in SUBSET DOMAIN CloudStacks, sh \in [Range(CloudStacks) -> SharedDocuments] :
         /\ K # {}
         /\ ctx = [config |-> [grouping_strategy |-> "cloud-multi-stage",
                               automerge         |-> TRUE,
                               multi_stage       |-> TRUE],
                   plan   |-> [strategy       |-> "production",
                               override_stack |-> "",
                               image_tag      |-> c_production_1,
                               multi_stage    |-> TRUE],
                   stack_changes |->
                       [i \in 1..Cardinality(K) |->
                           [stack       |-> SelectSeqBy(CloudStacks, K, 1)[i],
                            file_change |-> tag_file_path(SelectSeqBy(CloudStacks, K, 1)[i],
                                                          c_chart)]],
                   shared |-> sh]
    /\ grouped = [by |-> "none", status |-> "pending", groups |-> <<>>]
    /\ CalcIdle /\ PlanIdle /\ ExecIdle /\ MergeIdle /\ ClassifyIdle

ClassifyBatch ==
    /\ grouped.by = "none"
    /\ grouped' = [by |-> "classify_stacks_by_cloud", groups |-> <<>>]
                  @@ classify_stacks_by_cloud(Stacks(ctx.stack_changes), ctx.shared)
    /\ UNCHANGED <<ctx, notGroup>>

CloudNext == ClassifyBatch \/ HandlerGroup \/ BuilderGroup

SpecCloud == CloudInit /\ [][CloudNext]_vars

(***************************************************************************)
(* Claims about cloud detection (SpecCloud).                               *)
(***************************************************************************)
\* The stack's document declares a supported provider, the one the dev
\* mapping gives if the stack is in the mapping
ValidDeclaration(stack) ==
    /\ ctx.shared[stack] \in {"aws", "azure", "gcp"}
    /\ \A cloud \in DOMAIN DEV_STACK_MAPPING :
          DEV_STACK_MAPPING[cloud] = stack => ctx.shared[stack] = cloud

InputOfCloud == Stacks(ctx.stack_changes)

InvalidAt == {i \in DOMAIN InputOfCloud : ~ValidDeclaration(InputOfCloud[i])}

\* C19: get_stack_cloud_provider returns the provider declared in the
\* stack's shared metadata only if the document exists, has the
\* cloudProvider field, the value is one of aws, azure, gcp and, for a stack
\* of the dev mapping, equals the mapped provider; otherwise it raises and
\* never substitutes a default.  The batch classification and the cloud x
\* stage grouping fail on the first invalid stack and return no partial
\* result.
C19_CloudProviderValidated ==
    /\ \A stack \in Range(CloudStacks) :
          get_stack_cloud_provider(stack, ctx.shared) =
              IF ValidDeclaration(stack) THEN ctx.shared[stack] ELSE "raise"
    /\ grouped.by = "classify_stacks_by_cloud" =>
          IF InvalidAt = {}
          THEN /\ grouped.status = "ok"
               /\ \A cloud \in {"aws", "azure", "gcp"} :
                     grouped.result[cloud] =
                         LET mine == SelectSeqBy(InputOfCloud,
                                         {i \in DOMAIN InputOfCloud :
                                             ctx.shared[InputOfCloud[i]] = cloud}, 1)
                         IN  [k \in DOMAIN mine |->
                                 StackCloudInfo(mine[k], cloud, mine[k] \in dev_stack_names)]
          ELSE /\ grouped.status = "raise"
               /\ grouped.result = <<>>
               /\ \E i \in InvalidAt : /\ \A j \in InvalidAt : i <= j
                                       /\ grouped.raised_for = InputOfCloud[i]
    /\ grouped.by \in {"handler", "builder"} =>
          IF InvalidAt = {}
          THEN grouped.status = "ok" /\ grouped.groups # <<>>
          ELSE grouped.status = "raise" /\ grouped.groups = <<>>

\* A batch whose first stack is valid and whose second is not was classified
C19_Witness ==
    /\ grouped.by = "classify_stacks_by_cloud"
    /\ Len(InputOfCloud) >= 3
    /\ 1 \notin InvalidAt /\ 2 \in InvalidAt
    /\ grouped.status = "raise"

(***************************************************************************)
(* Manifest documents (tag.yaml after yaml.safe_load).  A document is a    *)
(* function from the paths of its nodes (sequences of keys, <<>> the root  *)
(* mapping) to nodes: a mapping, a string or None.  A node's parent is     *)
(* always a mapping node.  A dotted path "a.b" is the sequence of its      *)
(* parts <<"a","b">>, which is what path.split(".") yields.                *)
(***************************************************************************)
MapNode == [kind |-> "map", v |-> <<>>]

StrNode(v) == [kind |-> "str", v |-> v]

NoneNode == [kind |-> "none", v |-> <<>>]

\* The outcomes "an exception was raised" of the operators below
RaiseNode == [kind |-> "raise", v |-> <<>>]

RaiseDoc == (<<>> :> RaiseNode)

Changes(changes) == [status |-> "ok", changes |-> changes]

RaiseChanges == [status |-> "raise", changes |-> <<>>]

IsPrefix(p, q) == Len(p) <= Len(q) /\ SubSeq(q, 1, Len(p)) = p

\* d.get(key, default) on the mapping at path `at`: the child node's place,
\* or the default
Fresh == [fresh |-> TRUE, at |-> <<>>]

At(path) == [fresh |-> FALSE, at |-> path]

RECURSIVE navigate(_, _, _, _)
\* plan_builder.py 254-261: the loop over path.split("."), then the dict
\* test.  cur is where current_value is: a node of the document or a fresh {}.
navigate(doc, parts, i, cur) ==
    IF i > Len(parts)
    THEN (IF cur.fresh \/ doc[cur.at].kind = "map"
          THEN NoneNode                    \* isinstance(current_value, dict)
          ELSE doc[cur.at])
    ELSE IF cur.fresh
    THEN navigate(doc, parts, i + 1, Fresh)            \* {}.get(part, {})
    ELSE IF doc[cur.at].kind # "map"
    THEN NoneNode                          \* AttributeError: caught
    ELSE IF Append(cur.at, parts[i]) \in DOMAIN doc
    THEN navigate(doc, parts, i + 1, At(Append(cur.at, parts[i])))
    ELSE navigate(doc, parts, i + 1, Fresh)

\* current_data.get("image", {}).get(key, default): RaiseNode when image is
\* present and not a mapping (AttributeError, not caught)
image_field(doc, key, default) ==
    IF <<"image">> \notin DOMAIN doc THEN default
    ELSE IF doc[<<"image">>].kind # "map" THEN RaiseNode
    ELSE IF <<"image", key>> \in DOMAIN doc THEN doc[<<"image", key>>]
    ELSE default

\* str.strip(): the space, the tab and the newline stand for the whitespace
Whitespace == {" ", "\t", "\n"}

RECURSIVE lstrip(_)
lstrip(s) == IF s # <<>> /\ Head(s) \in Whitespace THEN lstrip(Tail(s)) ELSE s

RECURSIVE rstrip(_)
rstrip(s) ==
    IF s # <<>> /\ s[Len(s)] \in Whitespace THEN rstrip(SubSeq(s, 1, Len(s) - 1)) ELSE s

strip(s) == rstrip(lstrip(s))

TagChange(path, old_value, new_value, change_type) ==
    [path |-> path, old_value |-> old_value, new_value |-> new_value,
     change_type |-> change_type]

\* The extra-tag loop of calculate_tag_changes (plan_builder.py 248-269)
RECURSIVE extra_tag_changes(_, _, _)
extra_tag_changes(doc, extra_tags, i) ==
    IF i > Len(extra_tags) THEN <<>>
    ELSE LET path == extra_tags[i].path
             new_value == extra_tags[i].value
             current_value == navigate(doc, path, 1, At(<<>>))
         IN  (IF current_value # StrNode(new_value)
              THEN <<TagChange(path, current_value, new_value, "extra_tag")>>
              ELSE <<>>)
             \o extra_tag_changes(doc, extra_tags, i + 1)

\* calculate_tag_changes: Changes(the list of changes), or RaiseChanges.
\* commit_sha is <<>> for None.
calculate_tag_changes(current_data, image_tag, extra_tags, commit_sha) ==
    LET current_tag == image_field(current_data, "tag", StrNode(<<>>))
        current_sha == image_field(current_data, "commit_sha", NoneNode)
        checks_tag == image_tag # <<>> /\ strip(image_tag) # <<>>
        checks_sha == commit_sha # <<>>
    IN  IF (checks_tag /\ current_tag = RaiseNode) \/ (checks_sha /\ current_sha = RaiseNode)
        THEN RaiseChanges
        ELSE Changes(
             (IF checks_tag /\ current_tag # StrNode(image_tag)
              THEN <<TagChange(<<"image", "tag">>, current_tag, image_tag, "image_tag")>>
              ELSE <<>>)
             \o extra_tag_changes(current_data, extra_tags, 1)
             \o (IF checks_sha /\ current_sha # StrNode(commit_sha)
                 THEN <<TagChange(<<"image", "commit_sha">>, current_sha, commit_sha,
                                  "commit_sha")>>
                 ELSE <<>>))

RECURSIVE descend(_, _, _)
\* plan_builder.py 294-297: walk path_parts[:-1] from the root, creating the
\* missing levels; the document with those levels, or RaiseDoc (TypeError)
\* when a level that exists is a string or None
descend(doc, parts, i) ==
    IF i > Len(parts) - 1 THEN doc
    ELSE LET parent == SubSeq(parts, 1, i - 1)
             here   == SubSeq(parts, 1, i)
         IN  IF doc[parent].kind # "map" THEN RaiseDoc
             ELSE IF here \notin DOMAIN doc
             THEN descend(doc @@ (here :> MapNode), parts, i + 1)
             ELSE descend(doc, parts, i + 1)

\* current[path_parts[-1]] = change.new_value: the leaf replaces whatever
\* was at the path, its subtree included
set_leaf(doc, parts, value) ==
    LET parent == SubSeq(parts, 1, Len(parts) - 1)
    IN  IF doc[parent].kind # "map" THEN RaiseDoc
        ELSE [q \in {q \in DOMAIN doc : ~(IsPrefix(parts, q) /\ q # parts)} \cup {parts} |->
                 IF q = parts THEN StrNode(value) ELSE doc[q]]

apply_change(doc, change) ==
    LET levels == descend(doc, change.path, 1)
    IN  IF levels = RaiseDoc THEN RaiseDoc ELSE set_leaf(levels, change.path, change.new_value)

RECURSIVE apply_from(_, _, _)
apply_from(doc, changes, i) ==
    IF i > Len(changes) THEN doc
    ELSE LET next == apply_change(doc, changes[i])
         IN  IF next = RaiseDoc THEN RaiseDoc ELSE apply_from(next, changes, i + 1)

\* _apply_changes_to_data: the changed copy, or RaiseDoc
_apply_changes_to_data(data, changes) == apply_from(data, changes, 1)

(***************************************************************************)
(* SpecCalc: the change calculator as a function of its inputs.  Init      *)
(* draws a manifest, an image tag, extra tags and a commit SHA; the        *)
(* actions compute the changes, apply them, and compute again.             *)
(***************************************************************************)
c_old == <<"o","l","d">>

c_production_2 == <<"p","r","o","d","u","c","t","i","o","n","-","2">>

c_sha_old == <<"a","0">>

c_sha_new == <<"b","1">>

\* EXTRA_TAG1, EXTRA_TAG2: environment.py reads at most two extra tags
MaxExtraTags == 2

DocOf(pairs) ==
    [p \in {pr[1] : pr \in pairs} |-> (CHOOSE pr \in pairs : pr[1] = p)[2]]

\* The image subtree: absent, a string, or a mapping with tag absent, None,
\* stale or current and commit_sha absent, stale or current
ImageParts ==
    { {}, {<<<<"image">>, StrNode(c_old)>>} } \cup
    { {<<<<"image">>, MapNode>>} \cup tag \cup sha :
        tag \in { {}, {<<<<"image", "tag">>, NoneNode>>},
                  {<<<<"image", "tag">>, StrNode(c_old)>>},
                  {<<<<"image", "tag">>, StrNode(c_production_1)>>} },
        sha \in { {}, {<<<<"image", "commit_sha">>, StrNode(c_sha_old)>>},
                  {<<<<"image", "commit_sha">>, StrNode(c_sha_new)>>} } }

\* The subtree at "a": absent, a string, an empty mapping, or a mapping with
\* a stale or current "b"
OtherParts ==
    { {}, {<<<<"a">>, StrNode(c_old)>>}, {<<<<"a">>, MapNode>>},
      {<<<<"a">>, MapNode>>, <<<<"a", "b">>, StrNode(c_old)>>},
      {<<<<"a">>, MapNode>>, <<<<"a", "b">>, StrNode(c_production_1)>>} }

Documents ==
    {DocOf({<<<<>>, MapNode>>} \cup im \cup ot) : im \in ImageParts, ot \in OtherParts}

ExtraTag ==
    [path  : {<<"a">>, <<"a", "b">>, <<"image", "tag">>, <<"image", "commit_sha">>},
     value : {c_production_1, c_production_2}]

ExtraTagLists == UNION {[1..n -> ExtraTag] : n \in 0..MaxExtraTags}

CalcInit ==
    /\ \E doc \in Documents, tag \in {<<>>, <<" ">>, c_production_1},
          extras \in ExtraTagLists, sha \in {<<>>, c_sha_new} :
          calc = [current_data |-> doc, image_tag |-> tag, extra_tags |-> extras,
                  commit_sha |-> sha, pc |-> "start",
                  changes |-> <<>>, new_data |-> doc, again |-> <<>>]
    /\ GroupIdle /\ PlanIdle /\ ExecIdle /\ MergeIdle /\ ClassifyIdle

\* changes = calculate_tag_changes(current_data, ...)
CalcCompute ==
    /\ calc.pc = "start"
    /\ LET r == calculate_tag_changes(calc.current_data, calc.image_tag,
                                      calc.extra_tags, calc.commit_sha)
       IN  calc' = [calc EXCEPT !.pc = IF r.status = "ok" THEN "computed" ELSE "raised",
                                !.changes = r.changes]
    /\ UNCHANGED notCalc

\* new_data = _apply_changes_to_data(current_data, changes)
CalcApply ==
    /\ calc.pc = "computed"
    /\ LET d == _apply_changes_to_data(calc.current_data, calc.changes)
       IN  calc' = [calc EXCEPT !.pc = IF d = RaiseDoc THEN "raised" ELSE "applied",
                                !.new_data = IF d = RaiseDoc THEN calc.current_data ELSE d]
    /\ UNCHANGED notCalc

\* calculate_tag_changes(new_data, ...) with the same tag, extra tags and SHA
CalcAgain ==
    /\ calc.pc = "applied"
    /\ LET r == calculate_tag_changes(calc.new_data, calc.image_tag,
                                      calc.extra_tags, calc.commit_sha)
       IN  calc' = [calc EXCEPT !.pc = IF r.status = "ok" THEN "again" ELSE "raised",
                                !.again = r.changes]
    /\ UNCHANGED notCalc

CalcNext == CalcCompute \/ CalcApply \/ CalcAgain

SpecCalc == CalcInit /\ [][CalcNext]_vars

(***************************************************************************)
(* Claims about the change calculator (SpecCalc).                          *)
(***************************************************************************)
\* C5: the change calculator is idempotent: computing the changes again on
\* the result of applying the computed changes, with the same tag, extra
\* tags and commit SHA, yields the empty change list.
C5_RecomputeYieldsNoChanges ==
    calc.pc = "again" => calc.again = <<>>

(***************************************************************************)
(* tag_classification.py                                                   *)
(***************************************************************************)
c_dev_dash == <<"d","e","v","-">>

c_production_dash == <<"p","r","o","d","u","c","t","i","o","n","-">>

Digits == {"0", "1", "2", "3", "4", "5", "6", "7", "8", "9"}

all_digits(s) == s # <<>> /\ \A i \in DOMAIN s : s[i] \in Digits

\* re.match(r"^v?\d+\.\d+\.\d+$", tag)
is_semver(tag) ==
    LET body  == IF tag # <<>> /\ Head(tag) = "v" THEN Tail(tag) ELSE tag
        parts == split(body, ".")
    IN  Len(parts) = 3 /\ \A i \in 1..3 : all_digits(parts[i])

TagType == {"dev", "production", "canary", "semver", "invalid"}

\* detect_tag_type matching the prefixes against the tag as it is given
detect_tag_type_unstripped(tag) ==
    IF tag = <<>> \/ strip(tag) = <<>> THEN "invalid"
    ELSE IF startswith(tag, c_dev_dash) THEN "dev"
    ELSE IF startswith(tag, c_production_dash) THEN "production"
    ELSE IF \E prefix \in DOMAIN CANARY_STACKS : startswith(tag, prefix) THEN "canary"
    ELSE IF is_semver(tag) THEN "semver"
    ELSE "invalid"

detect_tag_type(tag) ==
    IF tag = <<>> \/ strip(tag) = <<>> THEN "invalid"
    ELSE LET t == strip(tag)
         IN  IF startswith(t, c_dev_dash) THEN "dev"
             ELSE IF startswith(t, c_production_dash) THEN "production"
             ELSE IF \E prefix \in DOMAIN CANARY_STACKS : startswith(t, prefix) THEN "canary"
             ELSE IF is_semver(t) THEN "semver"
             ELSE "invalid"

(***************************************************************************)
(* environment.py: EnvironmentConfig.from_env.  env gives each variable    *)
(* its text, "unset" when the variable is not in the environment.          *)
(* The text of EXTRA_TAG1 and EXTRA_TAG2 is given in its parts: what stands *)
(* before the first colon (the path, as its keys), whether there is a      *)
(* colon, and what follows it.  METADATA is not set: metadata is {}, a     *)
(* dict being a function from its keys.                                    *)
(***************************************************************************)
\* EXTRA_TAGi not in the environment: env.get(name, "") is the empty text
NoExtraTag == [path |-> <<>>, colon |-> FALSE, value |-> <<>>]

\* environment.py 46-56: the extra tags that have a colon and a value
parse_extra_tags(texts) ==
    LET parsed(tag_str) ==
            IF tag_str.colon /\ strip(tag_str.value) # <<>>
            THEN << [path |-> tag_str.path, value |-> strip(tag_str.value)] >>
            ELSE <<>>
    IN  Flatten([i \in DOMAIN texts |-> parsed(texts[i])])

\* env.get(name, default).lower() == "true"
env_flag(value, default) == (IF value = "unset" THEN default ELSE value) = "true"

from_env(env) ==
    LET strategy_str == IF env.GROUPING_STRATEGY = "unset" THEN "legacy"
                        ELSE env.GROUPING_STRATEGY
        parsed       == IF strategy_str \in GroupingStrategy THEN strategy_str ELSE "legacy"
        multi_stage  == env_flag(env.MULTI_STAGE, "false")
    IN  [helm_chart        |-> env.HELM_CHART,
         image_tag         |-> strip(env.IMAGE_TAG),
         github_token      |-> env.GH_TOKEN,
         automerge         |-> env_flag(env.AUTOMERGE, "true"),
         dry_run           |-> env_flag(env.DRY_RUN, "false"),
         multi_stage       |-> multi_stage,
         grouping_strategy |-> IF multi_stage /\ env.GROUPING_STRATEGY = "unset"
                               THEN "cloud-multi-stage" ELSE parsed,
         override_stack    |-> env.OVERRIDE_STACK,
         extra_tags        |-> parse_extra_tags(<<env.EXTRA_TAG1, env.EXTRA_TAG2>>),
         metadata          |-> <<>>]

(***************************************************************************)
(* plan_builder.py: prepare_plan and its steps.  disk gives, per stack,    *)
(* what reading <stack>/<chart>/tag.yaml yields: read "none" (read_file    *)
(* returns None), "raise" (read_file or yaml.safe_load raises) or "ok"     *)
(* with the document.  An outcome's status is "ok" or the exception.       *)
(***************************************************************************)
RECURSIVE extra_tags_strategy(_, _)
\* plan_builder.py 105-110: the first extra tag that is a dev, production or
\* semver tag decides; "" when none does
extra_tags_strategy(extra_tags, i) ==
    IF i > Len(extra_tags) THEN ""
    ELSE LET tag_type == detect_tag_type(extra_tags[i].value)
         IN  IF tag_type = "dev" THEN "dev"
             ELSE IF tag_type \in {"production", "semver"} THEN "production"
             ELSE extra_tags_strategy(extra_tags, i + 1)

_determine_strategy(config) ==
    IF config.override_stack # "" THEN "override"
    ELSE LET tag_type == IF config.image_tag # <<>>
                         THEN detect_tag_type(config.image_tag) ELSE "invalid"
             by_extra == extra_tags_strategy(config.extra_tags, 1)
         IN  IF tag_type = "dev" THEN "dev"
             ELSE IF tag_type \in {"production", "semver"} THEN "production"
             ELSE IF tag_type = "canary" THEN "canary"
             ELSE IF by_extra # "" THEN by_extra
             ELSE "dev"

\* os.listdir("."), sorted: the stacks and a folder that is not a stack
Listing == <<".github">> \o SortedStacks

_discover_stacks(listing) ==
    LET is_stack(item) == item \notin IGNORED_FOLDERS
    IN  SelectSeq(listing, is_stack)

get_dev_stacks(all_stacks) ==
    LET is_dev(stack) == classify_stack(stack).is_dev
    IN  SelectSeq(all_stacks, is_dev)

\* _select_target_stacks taking every stack that is not a canary stack for
\* a production run, the excluded stacks among them
_select_target_stacks_withExcluded(all_stacks, strategy, config) ==
    LET production(stack) == ~classify_stack(stack).is_canary
        parts == split(config.image_tag, "-")
        canary_tag_prefix == IF config.image_tag # <<>> /\ Len(parts) > 1
                             THEN c_canary_dash \o parts[2] ELSE <<>>
    IN  CASE strategy = "override" ->
                 IF config.override_stack \in Range(all_stacks)
                 THEN <<config.override_stack>> ELSE <<>>
          [] strategy = "dev" -> get_dev_stacks(all_stacks)
          [] strategy = "production" -> SelectSeq(all_stacks, production)
          [] strategy = "canary" ->
                 IF canary_tag_prefix \in DOMAIN CANARY_STACKS
                    /\ CANARY_STACKS[canary_tag_prefix].stack \in Range(all_stacks)
                 THEN <<CANARY_STACKS[canary_tag_prefix].stack>> ELSE <<>>
          [] OTHER -> <<>>

_select_target_stacks(all_stacks, strategy, config) ==
    LET production(stack) == /\ ~classify_stack(stack).is_canary
                             /\ ~classify_stack(stack).is_excluded
        parts == split(config.image_tag, "-")
        canary_tag_prefix == IF config.image_tag # <<>> /\ Len(parts) > 1
                             THEN c_canary_dash \o parts[2] ELSE <<>>
    IN  CASE strategy = "override" ->
                 IF config.override_stack \in Range(all_stacks)
                 THEN <<config.override_stack>> ELSE <<>>
          [] strategy = "dev" -> get_dev_stacks(all_stacks)
          [] strategy = "production" -> SelectSeq(all_stacks, production)
          [] strategy = "canary" ->
                 IF canary_tag_prefix \in DOMAIN CANARY_STACKS
                    /\ CANARY_STACKS[canary_tag_prefix].stack \in Range(all_stacks)
                 THEN <<CANARY_STACKS[canary_tag_prefix].stack>> ELSE <<>>
          [] OTHER -> <<>>

\* plan.metadata.get(key): the value, <<>> for None
metadata_get(metadata, key) == IF key \in DOMAIN metadata THEN metadata[key] ELSE <<>>

Calculated(stack_changes) == [status |-> "ok", stack_changes |-> stack_changes]

CalculationRaised(exception) == [status |-> exception, stack_changes |-> <<>>]

RECURSIVE calculate_from(_, _, _)
\* The loop of _calculate_all_changes from the i-th target stack on
calculate_from(plan, disk, i) ==
    IF i > Len(plan.target_stacks) THEN Calculated(<<>>)
    ELSE LET stack == plan.target_stacks[i]
             file  == disk[stack]
             rest  == calculate_from(plan, disk, i + 1)
             found == calculate_tag_changes(file.data, plan.image_tag, plan.extra_tags,
                                            metadata_get(plan.metadata, "commit_sha"))
             new_data == _apply_changes_to_data(file.data, found.changes)
         IN  IF file.read # "ok" THEN rest                      \* skipping
             ELSE IF found.status # "ok" THEN CalculationRaised("AttributeError")
             ELSE IF found.changes = <<>> THEN rest
             ELSE IF new_data = RaiseDoc THEN CalculationRaised("TypeError")
             ELSE IF rest.status # "ok" THEN rest
             ELSE Calculated(
                      << [stack       |-> stack,
                          file_change |-> [file_path   |-> tag_file_path(stack, plan.helm_chart),
                                           old_content |-> file.data,
                                           new_content |-> new_data,
                                           change_description |->
                                               [stack      |-> stack,
                                                helm_chart |-> plan.helm_chart,
                                                changes    |-> found.changes]],
                          changes     |-> found.changes] >>
                      \o rest.stack_changes)

\* _calculate_all_changes with a manifest that cannot be read made fatal
_calculate_all_changes_missingIsFatal(plan, disk) ==
    IF \E i \in DOMAIN plan.target_stacks : disk[plan.target_stacks[i]].read # "ok"
    THEN CalculationRaised("FileNotFoundError")
    ELSE calculate_from(plan, disk, 1)

_calculate_all_changes(plan, disk) == calculate_from(plan, disk, 1)

\* _should_auto_merge deciding by the user's request alone
_should_auto_merge_userOnly(plan, pr_type, user_requested) == user_requested

_should_auto_merge(plan, pr_type, user_requested) ==
    IF plan.strategy = "canary" THEN TRUE
    ELSE IF pr_type = "multi_stage_prod" THEN FALSE
    ELSE user_requested

\* grouping_strategies.py: should_auto_merge(pr_type, user_requested, strategy)
should_auto_merge(pr_type, user_requested, strategy) ==
    IF pr_type = "canary" THEN TRUE
    ELSE IF pr_type = "multi_stage_prod" THEN FALSE
    ELSE user_requested

c_dash == <<"-">>

c_sync == <<"-","s","y","n","c">>

c_canary == <<"c","a","n","a","r","y">>

\* The characters of the strings _create_pr_plan puts into the branch name
Chars ==
    [aws |-> <<"a","w","s">>, azure |-> <<"a","z","u","r","e">>,
     gcp |-> <<"g","c","p">>,
     multi_stage_dev |-> <<"d","e","v">>, multi_stage_prod |-> <<"p","r","o","d">>]

\* branch_name[:100]
MaxBranchName == 100

\* plan_builder.py 404-420; suffix is the four random characters
branch_name(pr_group, plan, suffix) ==
    LET pr_type == pr_group.pr_type
        cloud_suffix == IF pr_group.cloud_provider # "None"
                        THEN c_dash \o Chars[pr_group.cloud_provider] ELSE <<>>
        name == IF pr_type \in {"multi_stage_dev", "multi_stage_prod"}
                THEN plan.helm_chart \o c_dash \o Chars[pr_type] \o c_sync \o cloud_suffix
                     \o c_dash \o plan.image_tag \o c_dash \o suffix
                ELSE IF pr_type = "canary"
                THEN plan.helm_chart \o c_dash \o c_canary \o c_dash \o plan.image_tag
                     \o c_dash \o suffix
                ELSE plan.helm_chart \o c_dash \o plan.image_tag \o c_dash \o suffix
    IN  SubSeq(name, 1, IF Len(name) < MaxBranchName THEN Len(name) ELSE MaxBranchName)

\* _create_pr_plan committing every file change of the plan in every PR
_create_pr_plan_allFiles(pr_group, plan, config, suffix) ==
    [branch_name     |-> branch_name(pr_group, plan, suffix),
     base_branch     |-> pr_group.base_branch,
     auto_merge      |-> _should_auto_merge(plan, pr_group.pr_type, config.automerge),
     files_to_commit |-> [i \in DOMAIN plan.file_changes |->
                             plan.file_changes[i].file_path],
     pr_type         |-> "standard",
     cloud_provider  |-> "None"]

\* The PRPlan of a group, without pr_title, pr_body and commit_message.
\* pr_type and cloud_provider are not passed to PRPlan(), so they take the
\* dataclass defaults.
_create_pr_plan(pr_group, plan, config, suffix) ==
    [branch_name     |-> branch_name(pr_group, plan, suffix),
     base_branch     |-> pr_group.base_branch,
     auto_merge      |-> _should_auto_merge(plan, pr_group.pr_type, config.automerge),
     files_to_commit |-> [i \in DOMAIN pr_group.changes |->
                             pr_group.changes[i].file_change.file_path],
     pr_type         |-> "standard",
     cloud_provider  |-> "None"]

\* prepare_plan's outcome: how it ended, the plan (as far as it got), the
\* local pr_groups and the branch handed to io_layer.switch_branch.
\* suffixes[i] is what random.choices yields for the i-th PR plan.
Outcome(status, plan, pr_groups, switched) ==
    [status |-> status, plan |-> plan, pr_groups |-> pr_groups, switched |-> switched]

\* prepare_plan ending with the plan returned whether or not anything changed
prepare_plan_neverRaises(config, listing, disk, shared, suffixes) ==
    LET strategy == _determine_strategy(config)
        plan0 == [strategy       |-> strategy,
                  helm_chart     |-> config.helm_chart,
                  image_tag      |-> config.image_tag,
                  extra_tags     |-> config.extra_tags,
                  metadata       |-> config.metadata,
                  dry_run        |-> config.dry_run,
                  multi_stage    |-> config.multi_stage,
                  override_stack |-> config.override_stack,
                  target_stacks  |-> _select_target_stacks(_discover_stacks(listing),
                                                           strategy, config),
                  file_changes   |-> <<>>,
                  pr_plans       |-> <<>>]
        calculated == _calculate_all_changes(plan0, disk)
        stack_changes == calculated.stack_changes
        plan1 == [plan0 EXCEPT !.file_changes =
                     [i \in DOMAIN stack_changes |-> stack_changes[i].file_change]]
        grouping == _group_changes_for_prs([config |-> config, plan |-> plan1,
                                            stack_changes |-> stack_changes,
                                            shared |-> shared])
    IN  Outcome("ok",
                [plan1 EXCEPT !.pr_plans =
                    IF stack_changes = <<>> THEN <<>>
                    ELSE [i \in DOMAIN grouping.groups |->
                             _create_pr_plan(grouping.groups[i], plan1, config, suffixes[i])]],
                IF stack_changes = <<>> THEN <<>> ELSE grouping.groups, <<>>)

prepare_plan(config, listing, disk, shared, suffixes) ==
    LET strategy == _determine_strategy(config)
        parts    == split(config.image_tag, "-")
        canary_prefix == IF config.image_tag # <<>> /\ Len(parts) > 1
                         THEN parts[2] ELSE <<>>
        switched == IF strategy = "canary" THEN c_canary_dash \o canary_prefix ELSE <<>>
        plan0 == [strategy       |-> strategy,
                  helm_chart     |-> config.helm_chart,
                  image_tag      |-> config.image_tag,
                  extra_tags     |-> config.extra_tags,
                  metadata       |-> config.metadata,
                  dry_run        |-> config.dry_run,
                  multi_stage    |-> config.multi_stage,
                  override_stack |-> config.override_stack,
                  target_stacks  |-> _select_target_stacks(_discover_stacks(listing),
                                                           strategy, config),
                  file_changes   |-> <<>>,
                  pr_plans       |-> <<>>]
        calculated == _calculate_all_changes(plan0, disk)
        stack_changes == calculated.stack_changes
        plan1 == [plan0 EXCEPT !.file_changes =
                     [i \in DOMAIN stack_changes |-> stack_changes[i].file_change]]
        grouping == _group_changes_for_prs([config |-> config, plan |-> plan1,
                                            stack_changes |-> stack_changes,
                                            shared |-> shared])
    IN  IF plan0.target_stacks = <<>> THEN Outcome("ok", plan0, <<>>, switched)
        ELSE IF calculated.status # "ok" THEN Outcome(calculated.status, plan0, <<>>, switched)
        ELSE IF stack_changes = <<>> THEN Outcome("RuntimeError", plan0, <<>>, switched)
        ELSE IF grouping.status # "ok" THEN Outcome("ValueError", plan1, <<>>, switched)
        ELSE Outcome("ok",
                     [plan1 EXCEPT !.pr_plans =
                         [i \in DOMAIN grouping.groups |->
                             _create_pr_plan(grouping.groups[i], plan1, config, suffixes[i])]],
                     grouping.groups, switched)

\* UpdatePlan.has_changes
has_changes(plan) == plan.file_changes # <<>>

(***************************************************************************)
(* SpecPlan: one run of the planner.  Init draws the environment and the   *)
(* manifests on disk; PreparePlan is prepare_plan(from_env(env), io).      *)
(***************************************************************************)
ImageTags == {c_dev_1, c_production_1, c_canary_orion_1}

\* IMAGE_TAG and OVERRIDE_STACK: every tag without an override, and an
\* override naming a stack on disk or no stack at all
TagAndOverride ==
    {<<t, "">> : t \in ImageTags} \cup
    {<<c_production_1, o>> : o \in {prod_stack(1), "no-such-stack"}}

Environments ==
    {[HELM_CHART        |-> c_chart,
      GH_TOKEN          |-> "token",
      IMAGE_TAG         |-> to[1],
      OVERRIDE_STACK    |-> to[2],
      GROUPING_STRATEGY |-> gs,
      MULTI_STAGE       |-> ms,
      AUTOMERGE         |-> am,
      DRY_RUN           |-> "unset",
      EXTRA_TAG1        |-> NoExtraTag,
      EXTRA_TAG2        |-> NoExtraTag] :
        to \in TagAndOverride, gs \in {"unset", "cloud-multi-stage"},
        ms \in {"unset", "true"}, am \in {"true", "false"}}

NoManifest == [read |-> "none", data |-> (<<>> :> MapNode)]

UnreadableManifest == [read |-> "raise", data |-> (<<>> :> MapNode)]

\* tag.yaml holding image.tag = tag
Manifest(tag) ==
    [read |-> "ok",
     data |-> DocOf({<<<<>>, MapNode>>, <<<<"image">>, MapNode>>,
                     <<<<"image", "tag">>, StrNode(tag)>>})]

\* The stacks whose manifest a run with this environment reads
StacksRead(env) ==
    Range(_select_target_stacks(_discover_stacks(Listing),
                                _determine_strategy(from_env(env)), from_env(env)))

\* The manifest of every stack the run reads is missing, unreadable, up to
\* date or stale; the manifests it does not read are stale
Disks(env) ==
    {[s \in Range(SortedStacks) |-> IF s \in StacksRead(env) THEN d[s] ELSE Manifest(c_old)] :
        d \in [StacksRead(env) ->
                  {NoManifest, UnreadableManifest,
                   Manifest(strip(env.IMAGE_TAG)), Manifest(c_old)}]}

\* shared-values.yaml: the dev stacks declare their own cloud, the canary
\* stack gcp, the production stacks aws, azure, gcp in turn
DeclaredClouds ==
    [s \in Range(SortedStacks) |->
        IF dev_cloud_from(s, 1) # "None" THEN dev_cloud_from(s, 1)
        ELSE IF s \in canary_stack_names THEN "gcp"
        ELSE LET i == CHOOSE i \in 1..NProd : prod_stack(i) = s
             IN  SUPPORTED_CLOUD_PROVIDERS[((i - 1) % Len(SUPPORTED_CLOUD_PROVIDERS)) + 1]]

PlanInit ==
    /\ \E env \in Environments :
         \E disk \in Disks(env) :
           run = [env |-> env, disk |-> disk, shared |-> DeclaredClouds,
                  pc |-> "configured",
                  outcome |-> Outcome("pending", <<>>, <<>>, <<>>)]
    /\ GroupIdle /\ CalcIdle /\ ExecIdle /\ MergeIdle /\ ClassifyIdle

\* random.choices(string.ascii_lowercase + string.digits, k=4)
Suffixes == {<<"a","b","c","1">>, <<"x","y","z","2">>}

\* The number of PR plans the run creates
PRCount(config, listing, disk, shared) ==
    Len(prepare_plan(config, listing, disk, shared,
                     [i \in 1..Len(listing) |-> <<>>]).pr_groups)

PreparePlan ==
    /\ run.pc = "configured"
    /\ \E suffixes \in [1..PRCount(from_env(run.env), Listing, run.disk, run.shared)
                           -> Suffixes] :
          run' = [run EXCEPT !.pc = "prepared",
                             !.outcome = prepare_plan(from_env(run.env), Listing,
                                                      run.disk, run.shared, suffixes)]
    /\ UNCHANGED notPlan

PlanNext == PreparePlan

SpecPlan == PlanInit /\ [][PlanNext]_vars

(***************************************************************************)
(* Claims about the planner (SpecPlan).                                    *)
(***************************************************************************)
Prepared == run.pc = "prepared"

Requested == from_env(run.env).automerge

\* C3: the auto-merge decision depends on the pr_type and the user's request
\* only: true for canary, false for multi_stage_prod, the requested value for
\* standard and multi_stage_dev; and the auto_merge of every PRPlan the plan
\* builder returns follows this rule for the pr_type of its group.
C3_AutoMergeFollowsPRType ==
    /\ \A u \in BOOLEAN, g \in GroupingStrategy :
          /\ should_auto_merge("canary", u, g) = TRUE
          /\ should_auto_merge("multi_stage_prod", u, g) = FALSE
          /\ should_auto_merge("standard", u, g) = u
          /\ should_auto_merge("multi_stage_dev", u, g) = u
    /\ (Prepared /\ run.outcome.status = "ok") =>
          /\ Len(run.outcome.plan.pr_plans) = Len(run.outcome.pr_groups)
          /\ \A i \in DOMAIN run.outcome.plan.pr_plans :
                LET pr_type    == run.outcome.pr_groups[i].pr_type
                    auto_merge == run.outcome.plan.pr_plans[i].auto_merge
                IN  /\ pr_type = "canary" => auto_merge = TRUE
                    /\ pr_type = "multi_stage_prod" => auto_merge = FALSE
                    /\ pr_type \in {"standard", "multi_stage_dev"} =>
                          auto_merge = Requested

\* A plan with a prod group and a dev group while the user requested
\* auto-merge
C3_Witness ==
    /\ Prepared /\ run.outcome.status = "ok" /\ Requested
    /\ \E i, j \in DOMAIN run.outcome.pr_groups :
          /\ run.outcome.pr_groups[i].pr_type = "multi_stage_prod"
          /\ run.outcome.pr_groups[j].pr_type = "multi_stage_dev"

\* The stack of a manifest path, and its (cloud, stage) cell
CellOfFile(file_path) ==
    <<run.shared[file_path[1]], file_path[1] \in dev_stack_names>>

ChangedCells ==
    {CellOfFile(run.outcome.plan.file_changes[i].file_path) :
        i \in DOMAIN run.outcome.plan.file_changes}

\* C4: with a production tag, GROUPING_STRATEGY=cloud-multi-stage and
\* MULTI_STAGE not set, the plan prepare_plan returns has one PR plan per
\* non-empty (cloud, stage) cell, the prod PR plans before the dev ones,
\* every prod PR plan with auto_merge false and every dev PR plan with the
\* requested auto_merge.
C4_PlanHonoursGroupingStrategy ==
    ( /\ Prepared /\ run.outcome.status = "ok"
      /\ run.env.GROUPING_STRATEGY = "cloud-multi-stage"
      /\ run.env.MULTI_STAGE = "unset"
      /\ run.env.OVERRIDE_STACK = ""
      /\ detect_tag_type(run.env.IMAGE_TAG) = "production" ) =>
        LET pr_plans == run.outcome.plan.pr_plans
            cell(i)  == CellOfFile(pr_plans[i].files_to_commit[1])
        IN  /\ Len(pr_plans) = Cardinality(ChangedCells)
            /\ \A i \in DOMAIN pr_plans :
                  /\ \A k \in DOMAIN pr_plans[i].files_to_commit :
                        CellOfFile(pr_plans[i].files_to_commit[k]) = cell(i)
                  /\ pr_plans[i].auto_merge = (cell(i)[2] /\ Requested)
            /\ \A i, j \in DOMAIN pr_plans :
                  (i < j) => /\ cell(i) # cell(j)
                             /\ ~(cell(i)[2] /\ ~cell(j)[2])

Targets == run.outcome.plan.target_stacks

\* The target stacks whose manifest can be read and does not hold the tag
NeedsChange(stack) ==
    /\ run.disk[stack].read = "ok"
    /\ run.disk[stack] # Manifest(strip(run.env.IMAGE_TAG))

\* C6: a target stack whose manifest is missing or unreadable is skipped and
\* planning goes on with the other target stacks: the plan's file changes
\* are those of the readable target stacks that need a change, in order;
\* when there are target stacks and none of them yields a change,
\* prepare_plan raises.
C6_MissingSkippedEmptyRaises ==
    Prepared =>
        LET expected == SelectSeq(Targets, NeedsChange)
        IN  /\ (Targets # <<>> /\ expected = <<>>) =>
                   run.outcome.status = "RuntimeError"
            /\ expected # <<>> =>
                   /\ run.outcome.status = "ok"
                   /\ [i \in DOMAIN run.outcome.plan.file_changes |->
                          run.outcome.plan.file_changes[i].file_path]
                      = [i \in DOMAIN expected |->
                          tag_file_path(expected[i], c_chart)]

\* A missing and an unreadable manifest ahead of a target stack that changes
C6_Witness ==
    /\ Prepared /\ run.outcome.status = "ok"
    /\ \E i, j, k \in DOMAIN Targets :
          /\ i < k /\ j < k
          /\ run.disk[Targets[i]].read = "none"
          /\ run.disk[Targets[j]].read = "raise"
          /\ NeedsChange(Targets[k])

AllTargetsUpToDate ==
    \A i \in DOMAIN Targets : run.disk[Targets[i]] = Manifest(strip(run.env.IMAGE_TAG))

\* C7 (as stated): when every target stack's manifest already holds the
\* requested tag, prepare_plan returns a plan with has_changes() false and
\* no PR plans.
C7_UpToDateReturnsEmptyPlan ==
    (Prepared /\ AllTargetsUpToDate) =>
        /\ run.outcome.status = "ok"
        /\ ~has_changes(run.outcome.plan)
        /\ run.outcome.plan.pr_plans = <<>>

\* C7 (amended): when every target stack's manifest already holds the
\* requested tag and there is at least one target stack, prepare_plan raises
\* the "noop change" RuntimeError; it returns a plan with has_changes()
\* false and no PR plans only when there is no target stack.
C7_UpToDateRaisesNoop ==
    (Prepared /\ AllTargetsUpToDate) =>
        IF Targets # <<>>
        THEN run.outcome.status = "RuntimeError"
        ELSE /\ run.outcome.status = "ok"
             /\ ~has_changes(run.outcome.plan)
             /\ run.outcome.plan.pr_plans = <<>>

\* Several target stacks, all up to date
C7_Witness ==
    Prepared /\ AllTargetsUpToDate /\ Len(Targets) >= 2

\* The PR plans' files to commit, as (PR plan, position) pairs
CommittedAt(file_path) ==
    {ik \in {<<i, k>> : i \in DOMAIN run.outcome.plan.pr_plans, k \in 1..Len(SortedStacks)} :
        /\ ik[2] \in DOMAIN run.outcome.plan.pr_plans[ik[1]].files_to_commit
        /\ run.outcome.plan.pr_plans[ik[1]].files_to_commit[ik[2]] = file_path}

\* C12: in a plan prepare_plan returns, every path in a PRPlan's
\* files_to_commit is the file_path of exactly one FileChange of the plan,
\* and every FileChange's path is in files_to_commit exactly once over all
\* PR plans.
C12_FilesToCommitMatchFileChanges ==
    (Prepared /\ run.outcome.status = "ok") =>
        LET plan == run.outcome.plan
        IN  /\ \A i \in DOMAIN plan.pr_plans :
                  \A k \in DOMAIN plan.pr_plans[i].files_to_commit :
                      Cardinality({m \in DOMAIN plan.file_changes :
                          plan.file_changes[m].file_path =
                              plan.pr_plans[i].files_to_commit[k]}) = 1
            /\ \A m \in DOMAIN plan.file_changes :
                  Cardinality(CommittedAt(plan.file_changes[m].file_path)) = 1

\* A plan with at least three PR plans and four file changes
C12_Witness ==
    /\ Prepared /\ run.outcome.status = "ok"
    /\ Len(run.outcome.plan.pr_plans) >= 3
    /\ Len(run.outcome.plan.file_changes) >= 4

(***************************************************************************)
(* io_layer.py: the working tree.  An io_layer is the IOLayer's dry_run    *)
(* flag, the branch that is checked out and, for every branch of the       *)
(* repository, the folders of the working directory and what reading each  *)
(* stack's tag.yaml yields.  The registered branches exist in the          *)
(* repository, so git checkout does not fail.                              *)
(***************************************************************************)
\* IOLayer.switch_branch: git checkout and git pull, nothing in dry-run mode
switch_branch(io_layer, branch) ==
    IF io_layer.dry_run THEN io_layer
    ELSE [io_layer EXCEPT !.branch = branch]

\* os.listdir(".") and IOLayer.read_file on the branch that is checked out
working_tree(io_layer) == io_layer.tree[io_layer.branch]

\* plan_builder.py 29-58: prepare_plan(config, io_layer), reading through the
\* io_layer after the canary branch is switched to
prepare_plan_on(config, io_layer, shared, suffixes) ==
    LET strategy == _determine_strategy(config)
        parts    == split(config.image_tag, "-")
        canary_prefix == IF config.image_tag # <<>> /\ Len(parts) > 1
                         THEN parts[2] ELSE <<>>
        io_after == IF strategy = "canary"
                    THEN switch_branch(io_layer, c_canary_dash \o canary_prefix)
                    ELSE io_layer
    IN  prepare_plan(config, working_tree(io_after).listing, working_tree(io_after).disk,
                     shared, suffixes)

(***************************************************************************)
(* environment.py: EnvironmentConfig.validate, for the variables of the    *)
(* model; dirs are the folders os.path.isdir finds.  The result is the set *)
(* of the errors, by kind.                                                 *)
(***************************************************************************)
\* validate without the check of a dev tag on a production override stack
validate_overrideUnchecked(config, env, dirs) ==
    LET tag_type == detect_tag_type(config.image_tag)
        texts == <<env.EXTRA_TAG1, env.EXTRA_TAG2>>
    IN  (IF config.helm_chart = <<>> THEN {"HELM_CHART is required"} ELSE {}) \cup
        (IF config.github_token = "" THEN {"GH_TOKEN is required"} ELSE {}) \cup
        (IF config.image_tag = <<>> /\ config.extra_tags = <<>>
         THEN {"tag or extra tag required"} ELSE {}) \cup
        (IF env.GROUPING_STRATEGY \notin GroupingStrategy \cup {"unset"}
         THEN {"invalid GROUPING_STRATEGY"} ELSE {}) \cup
        (IF config.image_tag # <<>> /\ config.override_stack = "" /\ tag_type = "invalid"
         THEN {"invalid IMAGE_TAG"} ELSE {}) \cup
        (IF /\ config.image_tag # <<>> /\ config.override_stack = ""
            /\ config.grouping_strategy = "cloud-multi-stage"
            /\ tag_type \notin {"production", "semver"}
         THEN {"cloud-multi-stage requires production tag"} ELSE {}) \cup
        (IF \E i \in DOMAIN texts :
               (texts[i].path # <<>> \/ strip(texts[i].value) # <<>>) /\ ~texts[i].colon
         THEN {"EXTRA_TAG format"} ELSE {}) \cup
        (IF /\ config.override_stack = ""
            /\ \E i \in DOMAIN config.extra_tags :
                  detect_tag_type(config.extra_tags[i].value) = "invalid"
         THEN {"invalid EXTRA_TAG"} ELSE {})

validate(config, env, dirs) ==
    LET tag_type == detect_tag_type(config.image_tag)
        texts == <<env.EXTRA_TAG1, env.EXTRA_TAG2>>
    IN  (IF config.helm_chart = <<>> THEN {"HELM_CHART is required"} ELSE {}) \cup
        (IF config.github_token = "" THEN {"GH_TOKEN is required"} ELSE {}) \cup
        (IF config.image_tag = <<>> /\ config.extra_tags = <<>>
         THEN {"tag or extra tag required"} ELSE {}) \cup
        (IF env.GROUPING_STRATEGY \notin GroupingStrategy \cup {"unset"}
         THEN {"invalid GROUPING_STRATEGY"} ELSE {}) \cup
        (IF config.image_tag # <<>> /\ config.override_stack = "" /\ tag_type = "invalid"
         THEN {"invalid IMAGE_TAG"} ELSE {}) \cup
        (IF /\ config.image_tag # <<>> /\ config.override_stack = ""
            /\ config.grouping_strategy = "cloud-multi-stage"
            /\ tag_type \notin {"production", "semver"}
         THEN {"cloud-multi-stage requires production tag"} ELSE {}) \cup
        (IF /\ config.override_stack # "" /\ config.image_tag # <<>>
            /\ config.override_stack \in dirs
            /\ tag_type = "dev" /\ classify_stack(config.override_stack).is_production
         THEN {"non-production tag on production stack"} ELSE {}) \cup
        (IF \E i \in DOMAIN texts :
               (texts[i].path # <<>> \/ strip(texts[i].value) # <<>>) /\ ~texts[i].colon
         THEN {"EXTRA_TAG format"} ELSE {}) \cup
        (IF /\ config.override_stack = ""
            /\ \E i \in DOMAIN config.extra_tags :
                  detect_tag_type(config.extra_tags[i].value) = "invalid"
         THEN {"invalid EXTRA_TAG"} ELSE {})

(***************************************************************************)
(* SpecStrategy: one run of the planner on a repository with a main and a  *)
(* canary branch.  Init draws the environment (primary tag, extra tags,    *)
(* override, grouping and merge settings), the IOLayer's mode and the two  *)
(* branches; PrepareOnBranch is prepare_plan(from_env(env), io_layer).     *)
(***************************************************************************)
c_junk == <<"x">>

c_semver == <<"1",".","2",".","3">>

\* IMAGE_TAG: not set, no tag format, and one tag of each type
StrategyImageTags == {<<>>, c_junk, c_semver, c_dev_1, c_production_1, c_canary_orion_1}

\* EXTRA_TAGi: not set, without a colon, and a:<value> with a value of no
\* tag format, a dev, a production and a canary tag
StrategyExtraTags ==
    {NoExtraTag, [path |-> <<"a">>, colon |-> FALSE, value |-> <<>>]} \cup
    {[path |-> <<"a">>, colon |-> TRUE, value |-> v] :
        v \in {c_junk, c_dev_1, c_production_2, c_canary_orion_1}}

c_excluded_stack == "dev-keboola-gcp-us-east1-e2e"

\* The stacks of the repository, sorted, an excluded stack among them
StrategyStacks ==
    SubSeq(SortedStacks, 1, NProd + 3) \o <<c_excluded_stack>>
    \o SubSeq(SortedStacks, NProd + 4, Len(SortedStacks))

\* IMAGE_TAG and OVERRIDE_STACK: every tag without an override, and an
\* override naming a production stack, an excluded stack, an ignored folder
\* or no folder at all
StrategyTagAndOverride ==
    {<<t, "">> : t \in StrategyImageTags} \cup
    {<<t, o>> : t \in {<<>>, c_canary_orion_1},
                o \in {prod_stack(1), c_excluded_stack, ".github", "no-such-stack"}}

StrategyEnvironments ==
    {[HELM_CHART        |-> c_chart,
      GH_TOKEN          |-> "token",
      IMAGE_TAG         |-> to[1],
      OVERRIDE_STACK    |-> to[2],
      GROUPING_STRATEGY |-> gs,
      MULTI_STAGE       |-> ms,
      AUTOMERGE         |-> am,
      DRY_RUN           |-> "unset",
      EXTRA_TAG1        |-> e1,
      EXTRA_TAG2        |-> e2] :
        to \in StrategyTagAndOverride,
        gs \in {"unset", "single", "stack", "cloud-multi-stage"},
        ms \in {"unset", "true"}, am \in {"true", "false"},
        e1 \in StrategyExtraTags, e2 \in StrategyExtraTags}

\* A branch: the folders, with or without the canary stack's folder, and the
\* manifests, all stale, the canary stack's chart being there or not
Branches ==
    {[listing |-> <<".github">> \o SelectSeq(StrategyStacks, LAMBDA s : s \in stacks),
      disk    |-> [s \in Range(StrategyStacks) |->
                      IF s \in canary_stack_names /\ ~chart THEN NoManifest
                      ELSE Manifest(c_old)]] :
        stacks \in {Range(StrategyStacks), Range(StrategyStacks) \ canary_stack_names},
        chart \in BOOLEAN}

StrategyClouds ==
    [s \in Range(StrategyStacks) |->
        IF s \in DOMAIN DeclaredClouds THEN DeclaredClouds[s] ELSE "gcp"]

\* The branches and the IOLayer's mode make a difference to a run that
\* switches the branch; the other runs get one repository
SwitchesBranch(env) == _determine_strategy(from_env(env)) = "canary"

EveryFolderAndChart ==
    CHOOSE b \in Branches : /\ Range(b.listing) = Range(StrategyStacks) \cup {".github"}
                            /\ \A s \in Range(StrategyStacks) : b.disk[s] = Manifest(c_old)

StrategyInit ==
    /\ \E env \in StrategyEnvironments, dry_run \in BOOLEAN,
          main \in Branches, canary \in Branches :
         /\ canary_stack_names \subseteq Range(canary.listing)
         /\ ~SwitchesBranch(env) =>
               ~dry_run /\ main = EveryFolderAndChart /\ canary = EveryFolderAndChart
         /\ run = [env      |-> env,
                   io_layer |-> [dry_run |-> dry_run, branch |-> c_main,
                                 tree    |-> (c_main :> main) @@ (c_canary_orion :> canary)],
                   shared   |-> StrategyClouds,
                   pc       |-> "configured",
                   outcome  |-> Outcome("pending", <<>>, <<>>, <<>>)]
    /\ GroupIdle /\ CalcIdle /\ ExecIdle /\ MergeIdle /\ ClassifyIdle

PrepareOnBranch ==
    /\ run.pc = "configured"
    /\ LET config == from_env(run.env)
           count  == Len(prepare_plan_on(config, run.io_layer, run.shared,
                                         [i \in 1..Len(StrategyStacks) |-> <<>>]).pr_groups)
       IN  \E suffix \in Suffixes :
             run' = [run EXCEPT !.pc = "prepared",
                                !.outcome = prepare_plan_on(config, run.io_layer, run.shared,
                                                            [i \in 1..count |-> suffix])]
    /\ UNCHANGED notPlan

StrategyNext == PrepareOnBranch

SpecStrategy == StrategyInit /\ [][StrategyNext]_vars

(***************************************************************************)
(* Claims about the strategy and the target stacks (SpecStrategy).         *)
(***************************************************************************)
\* The environment is one that EnvironmentConfig.validate accepts
Accepted ==
    validate(from_env(run.env), run.env, Range(run.io_layer.tree[c_main].listing)) = {}

\* The strategy a tag type stands for
StrategyOfTagType(tag_type) ==
    CASE tag_type = "dev" -> "dev"
      [] tag_type \in {"production", "semver"} -> "production"
      [] tag_type = "canary" -> "canary"
      [] OTHER -> "invalid"

\* The extra tags whose value has a tag type, by position
Classifying(extra_tags) ==
    {i \in DOMAIN extra_tags : detect_tag_type(extra_tags[i].value) # "invalid"}

FirstClassifying(extra_tags) ==
    CHOOSE i \in Classifying(extra_tags) : \A j \in Classifying(extra_tags) : i <= j

\* C13: the strategy is OVERRIDE if an override stack is given; otherwise it
\* follows the primary tag's type (dev to DEV, production or semver to
\* PRODUCTION, canary to CANARY); otherwise it follows the type of the first
\* extra tag, in input order, whose value classifies; and it is DEV when
\* nothing classifies.  It is never INVALID and the plan carries the same
\* strategy after planning.
C13_StrategyByOverrideTagThenExtraTags ==
    LET config   == from_env(run.env)
        strategy == _determine_strategy(config)
        tag_type == detect_tag_type(config.image_tag)
    IN  /\ strategy \in UpdateStrategy \ {"invalid"}
        /\ config.override_stack # "" => strategy = "override"
        /\ config.override_stack = "" /\ tag_type # "invalid" =>
              strategy = StrategyOfTagType(tag_type)
        /\ ( /\ config.override_stack = "" /\ tag_type = "invalid"
             /\ Classifying(config.extra_tags) # {} ) =>
              strategy = StrategyOfTagType(detect_tag_type(
                             config.extra_tags[FirstClassifying(config.extra_tags)].value))
        /\ ( /\ config.override_stack = "" /\ tag_type = "invalid"
             /\ Classifying(config.extra_tags) = {} ) =>
              strategy = "dev"
        /\ Prepared => run.outcome.plan.strategy = strategy

\* The canary prefix an extra tag's value starts with, if any
CanaryPrefixesOf(value) == {prefix \in DOMAIN CANARY_STACKS : startswith(value, prefix)}

\* No primary tag, no override, and extra tags that all carry a canary tag
CanaryByExtraTag ==
    LET config == from_env(run.env)
    IN  /\ config.image_tag = <<>> /\ config.override_stack = ""
        /\ config.extra_tags # <<>>
        /\ \A i \in DOMAIN config.extra_tags :
              CanaryPrefixesOf(config.extra_tags[i].value) # {}

\* C14: with no primary image tag and an extra tag whose value starts with a
\* registered canary prefix the run is a canary deployment: the strategy is
\* CANARY, the working branch is switched to the canary branch, only the
\* registered canary stack is targeted, no dev stack's manifest is changed
\* or committed, and the single PR targets the canary base branch.
C14_CanaryExtraTagIsCanaryRun ==
    (Prepared /\ CanaryByExtraTag) =>
        LET config  == from_env(run.env)
            plan    == run.outcome.plan
            canary  == {CANARY_STACKS[prefix] :
                           prefix \in CanaryPrefixesOf(config.extra_tags[1].value)}
        IN  /\ plan.strategy = "canary"
            /\ run.outcome.switched \in {c.base_branch : c \in canary}
            /\ Range(plan.target_stacks) \subseteq {c.stack : c \in canary}
            /\ \A i \in DOMAIN plan.file_changes :
                  plan.file_changes[i].file_path[1] \notin dev_stack_names
            /\ run.outcome.status = "ok" /\ plan.file_changes # <<>> =>
                  /\ Len(plan.pr_plans) = 1
                  /\ plan.pr_plans[1].base_branch \in {c.base_branch : c \in canary}
                  /\ \A j \in DOMAIN plan.pr_plans[1].files_to_commit :
                        plan.pr_plans[1].files_to_commit[j][1] \notin dev_stack_names

\* The folders the run lists: those of the branch checked out after the
\* switch that prepare_plan asked for, if it asked for one
TreeRead ==
    IF run.outcome.switched = <<>> THEN working_tree(run.io_layer)
    ELSE working_tree(switch_branch(run.io_layer, run.outcome.switched))

Discovered == Range(TreeRead.listing) \ IGNORED_FOLDERS

\* C15: the target stacks are discovered stacks chosen by strategy: OVERRIDE
\* gives the override stack alone if it was discovered and nothing otherwise,
\* DEV exactly the discovered dev stacks, PRODUCTION exactly the discovered
\* stacks that are neither canary nor excluded (dev stacks included), CANARY
\* only the stack registered for the tag's canary prefix.  So an excluded or
\* ignored stack is targeted only as the explicit override, and a canary
\* stack never by a DEV or PRODUCTION run.
C15_TargetsChosenByStrategy ==
    Prepared =>
        LET config   == from_env(run.env)
            strategy == run.outcome.plan.strategy
            targets  == Range(run.outcome.plan.target_stacks)
        IN  /\ targets \subseteq Discovered
            /\ Cardinality(targets) = Len(run.outcome.plan.target_stacks)
            /\ strategy = "override" =>
                  targets = {config.override_stack} \cap Discovered
            /\ strategy = "dev" => targets = Discovered \cap dev_stack_names
            /\ strategy = "production" =>
                  /\ targets = Discovered \ (canary_stack_names \cup EXCLUDED_STACKS)
                  /\ Discovered \cap dev_stack_names \subseteq targets
            /\ strategy = "canary" =>
                  targets \subseteq {CANARY_STACKS[prefix].stack :
                                        prefix \in CanaryPrefixesOf(config.image_tag)}
            /\ \A stack \in targets :
                  stack \in EXCLUDED_STACKS \cup IGNORED_FOLDERS =>
                      strategy = "override" /\ stack = config.override_stack
            /\ strategy \in {"dev", "production"} => targets \cap canary_stack_names = {}

\* A production run over folders with an excluded and a canary stack that
\* targets the production and the dev stacks
C15_Witness ==
    /\ Prepared
    /\ run.outcome.plan.strategy = "production"
    /\ Discovered \cap EXCLUDED_STACKS # {}
    /\ Discovered \cap canary_stack_names # {}
    /\ Range(run.outcome.plan.target_stacks) \cap dev_stack_names # {}
    /\ Range(run.outcome.plan.target_stacks) \cap ProdStacks # {}

\* A canary run: a primary tag with a registered canary prefix, no override,
\* and a plan that changes the canary stack's manifest
CanaryRunWithChange ==
    /\ Prepared
    /\ from_env(run.env).override_stack = ""
    /\ CanaryPrefixesOf(from_env(run.env).image_tag) # {}
    /\ run.outcome.status = "ok"
    /\ \E i \in DOMAIN run.outcome.plan.file_changes :
          run.outcome.plan.file_changes[i].file_path[1] \in canary_stack_names

RegisteredBranches ==
    {CANARY_STACKS[prefix].base_branch :
        prefix \in CanaryPrefixesOf(from_env(run.env).image_tag)}

\* The chart is in the canary stack on the canary branch and not on main
ChartOnCanaryBranchOnly ==
    /\ \A branch \in RegisteredBranches :
          \A stack \in canary_stack_names :
             /\ stack \in Range(run.io_layer.tree[branch].listing)
             /\ run.io_layer.tree[branch].disk[stack].read = "ok"
    /\ \A stack \in canary_stack_names :
          \/ stack \notin Range(run.io_layer.tree[c_main].listing)
          \/ run.io_layer.tree[c_main].disk[stack].read = "none"

\* C17: in a CANARY run the working branch is switched to the canary
\* prefix's registered base branch before the stacks are discovered and
\* before any manifest is read, so a chart that exists only on the canary
\* branch is found and planning does not fail with the missing-manifest
\* error.
C17_SwitchBeforeDiscovery ==
    (Prepared /\ run.outcome.plan.strategy = "canary") =>
        /\ run.outcome.switched \in RegisteredBranches
        /\ \A branch \in RegisteredBranches : TreeRead = run.io_layer.tree[branch]
        /\ ChartOnCanaryBranchOnly =>
              /\ run.outcome.status = "ok"
              /\ \E i \in DOMAIN run.outcome.plan.file_changes :
                    run.outcome.plan.file_changes[i].file_path[1] \in canary_stack_names

(***************************************************************************)
(* SpecClassify: stack classification of folder names of every kind.  Init *)
(* draws a list of names; the actions classify each name and filter the    *)
(* dev stacks.                                                             *)
(***************************************************************************)
\* The names of the tables, production stacks, and names that resemble a
\* table's entry: the empty name, a mapping's key, a canary prefix, a dev
\* stack in upper case, a dev stack's name with a suffix
StackNames ==
    dev_stack_names \cup canary_stack_names \cup EXCLUDED_STACKS \cup IGNORED_FOLDERS
    \cup ProdStacks
    \cup {"", "gcp", "canary-orion", "DEV-KEBOOLA-GCP-US-CENTRAL1",
          "dev-keboola-gcp-us-central1-2"}

\* The longest list of names drawn
MaxNames == 2

ClassifyInit ==
    /\ \E n \in 1..MaxNames :
         \E all_stacks \in [1..n -> StackNames] :
            cls = [all_stacks |-> all_stacks, pc |-> "listed",
                   classified |-> <<>>, dev_stacks |-> <<>>]
    /\ GroupIdle /\ CalcIdle /\ PlanIdle /\ ExecIdle /\ MergeIdle

ClassifyStacks ==
    /\ cls.pc = "listed"
    /\ cls' = [cls EXCEPT !.pc = "classified",
                          !.classified = [i \in DOMAIN cls.all_stacks |->
                                             classify_stack(cls.all_stacks[i])]]
    /\ UNCHANGED notClassify

GetDevStacks ==
    /\ cls.pc = "listed"
    /\ cls' = [cls EXCEPT !.pc = "filtered",
                          !.dev_stacks = get_dev_stacks(cls.all_stacks)]
    /\ UNCHANGED notClassify

ClassifyNext == ClassifyStacks \/ GetDevStacks

SpecClassify == ClassifyInit /\ [][ClassifyNext]_vars

(***************************************************************************)
(* Claims about stack classification (SpecClassify).                       *)
(***************************************************************************)
InDevTable(name) == \E cloud \in DOMAIN DEV_STACK_MAPPING : DEV_STACK_MAPPING[cloud] = name

InCanaryTable(name) == \E prefix \in DOMAIN CANARY_STACKS : CANARY_STACKS[prefix].stack = name

\* How many of is_dev, is_production, is_canary are true
KindsSet(c) ==
    Cardinality({k \in {"is_dev", "is_production", "is_canary"} : c[k]})

\* C20: for every stack name classify_stack sets exactly one of is_dev,
\* is_production, is_canary when the name is neither excluded nor ignored,
\* and sets is_production to false when the name is excluded or ignored; a
\* name in none of the dev, canary, excluded and ignored tables is
\* production.
C20_ExactlyOneKind ==
    \A i \in DOMAIN cls.classified :
        LET name == cls.all_stacks[i]
            c    == cls.classified[i]
            out  == name \in EXCLUDED_STACKS \/ name \in IGNORED_FOLDERS
        IN  /\ c.name = name
            /\ ~out => KindsSet(c) = 1
            /\ out => ~c.is_production
            /\ (~out /\ ~InDevTable(name) /\ ~InCanaryTable(name)) =>
                  c.is_production /\ ~c.is_dev /\ ~c.is_canary

\* An excluded stack and a name of no table have been classified
C20_Witness ==
    /\ cls.pc = "classified"
    /\ \E i, j \in DOMAIN cls.classified :
          /\ cls.all_stacks[i] \in EXCLUDED_STACKS
          /\ cls.all_stacks[j] = "gcp"
          /\ cls.classified[j].is_production

(***************************************************************************)
(* SpecTag: tag classification of tag strings of every shape.  Init draws  *)
(* a tag; DetectTagType is detect_tag_type(tag).                           *)
(***************************************************************************)
\* The middle of a tag: nothing, the prefixes whole, cut short, in another
\* case and one after the other, a canary prefix that is not registered,
\* and version numbers of the right and of a wrong shape
TagCores ==
    { <<>>, <<"x">>, <<"v">>,
      c_dev_dash, <<"d","e","v">>, <<"D","e","v","-">>,
      c_production_dash, <<"p","r","o","d","u","c","t","i","o","n">>,
      c_canary_orion, c_canary_dash, c_canary_dash \o <<"z">>,
      c_dev_dash \o c_production_dash, c_production_dash \o c_dev_dash,
      c_canary_orion \o c_dev_dash, <<"x">> \o c_dev_dash,
      c_semver, <<"v">> \o c_semver, <<"V">> \o c_semver, <<"v","v">> \o c_semver,
      <<"1","0",".","2","0",".","3","0">>, <<"1",".","2">>, c_semver \o <<".","4">>,
      <<"1",".",".","3">>, <<".","2",".","3">>, <<"1",".","2",".">>,
      <<"1",".","x",".","3">>, <<"1"," ",".","2",".","3">>,
      c_dev_dash \o c_semver }

\* What stands before and after the middle
TagEnds == {<<>>, <<" ">>, <<"\t">>, <<"1">>, <<"-","1">>}

TagStrings == {lead \o core \o trail : lead \in {<<>>, <<" ">>, <<"\n">>},
                                       core \in TagCores, trail \in TagEnds}

TagInit ==
    /\ \E tag \in TagStrings : cls = [tag |-> tag, pc |-> "given", tag_type |-> "none"]
    /\ GroupIdle /\ CalcIdle /\ PlanIdle /\ ExecIdle /\ MergeIdle

DetectTagType ==
    /\ cls.pc = "given"
    /\ cls' = [cls EXCEPT !.pc = "detected", !.tag_type = detect_tag_type(cls.tag)]
    /\ UNCHANGED notClassify

TagNext == DetectTagType

SpecTag == TagInit /\ [][TagNext]_vars

(***************************************************************************)
(* Claims about tag classification (SpecTag).                              *)
(***************************************************************************)
\* The tag without the whitespace around it
Trimmed(tag) ==
    LET inked == {i \in DOMAIN tag : tag[i] \notin {" ", "\t", "\n"}}
    IN  IF inked = {} THEN <<>>
        ELSE SubSeq(tag, CHOOSE i \in inked : \A j \in inked : i <= j,
                         CHOOSE i \in inked : \A j \in inked : j <= i)

HasPrefix(tag, prefix) ==
    Len(prefix) <= Len(tag) /\ \A i \in DOMAIN prefix : tag[i] = prefix[i]

\* An optional v, then digits, a dot, digits, a dot, digits
VersionShape(tag) ==
    LET from == IF tag # <<>> /\ tag[1] = "v" THEN 2 ELSE 1
    IN  \E a, b \in from..Len(tag) :
           /\ from < a /\ a + 1 < b /\ b < Len(tag)
           /\ \A i \in from..Len(tag) :
                 IF i \in {a, b} THEN tag[i] = "." ELSE tag[i] \in Digits

\* C21: detect_tag_type is a total function of the tag string with
\* first-match-wins priority: an empty or whitespace-only tag is INVALID;
\* else the prefix dev- gives DEV; else the prefix production- gives
\* PRODUCTION; else a registered canary prefix gives CANARY; else the shape
\* optional v, int.int.int gives SEMVER; everything else is INVALID.
C21_TagTypeByFirstMatch ==
    cls.pc = "detected" =>
        LET tag == Trimmed(cls.tag)
        IN  /\ cls.tag_type \in TagType
            /\ cls.tag_type =
                  IF tag = <<>> THEN "invalid"
                  ELSE IF HasPrefix(tag, c_dev_dash) THEN "dev"
                  ELSE IF HasPrefix(tag, c_production_dash) THEN "production"
                  ELSE IF \E prefix \in DOMAIN CANARY_STACKS : HasPrefix(tag, prefix)
                       THEN "canary"
                  ELSE IF VersionShape(tag) THEN "semver"
                  ELSE "invalid"

\* A version number with whitespace around it has been classified SEMVER
C21_Witness ==
    /\ cls.pc = "detected"
    /\ cls.tag = <<"\n">> \o <<"v">> \o c_semver \o <<"\t">>
    /\ cls.tag_type = "semver"

(***************************************************************************)
(* plan_executor.py.  answers[i] is what io_layer.create_branch_commit_    *)
(* and_pr does when called for the i-th PR plan: it returns a URL          *)
(* ("url"), returns None ("None", an IOLayer in dry-run mode), or raises   *)
(* before the pull request exists ("push raises") or after, in the         *)
(* auto-merge ("merge raises"), or raises in git checkout -b because the   *)
(* branch exists ("checkout raises").  calls is the list of operations the *)
(* IOLayer carried out, each with the PR plan it was for; received the     *)
(* answers that were given.                                                *)
(***************************************************************************)
ExecutionResult(dry_run) ==
    [success |-> TRUE, pr_urls |-> <<>>, errors |-> <<>>, files_written |-> <<>>,
     changes_made |-> <<>>, dry_run |-> dry_run]

\* files_by_pr: branch name -> the file changes of the files to commit, in
\* insertion order.  A later PR plan with the same branch name replaces the
\* entry of an earlier one.
_group_files_by_pr(plan) ==
    [b \in {plan.pr_plans[i].branch_name : i \in DOMAIN plan.pr_plans} |->
        LET last == CHOOSE i \in DOMAIN plan.pr_plans :
                        /\ plan.pr_plans[i].branch_name = b
                        /\ \A j \in DOMAIN plan.pr_plans :
                              plan.pr_plans[j].branch_name = b => j <= i
            known(file_path) ==
                \E k \in DOMAIN plan.file_changes :
                    plan.file_changes[k].file_path = file_path
            files == SelectSeq(plan.pr_plans[last].files_to_commit, known)
        IN  [n \in DOMAIN files |->
                plan.file_changes[CHOOSE k \in DOMAIN plan.file_changes :
                    /\ plan.file_changes[k].file_path = files[n]
                    /\ \A m \in 1..(k - 1) : plan.file_changes[m].file_path # files[n]]]]

_execute_file_changes(plan, result) ==
    LET files_by_pr == _group_files_by_pr(plan)
        pr_files == Flatten([i \in DOMAIN plan.pr_plans |->
                                files_by_pr[plan.pr_plans[i].branch_name]])
        descriptions == [n \in DOMAIN pr_files |-> pr_files[n].change_description]
    IN  IF plan.dry_run
        THEN [result EXCEPT !.changes_made = @ \o descriptions]
        ELSE [result EXCEPT !.files_written = @ \o [n \in DOMAIN pr_files |->
                                                       pr_files[n].file_path],
                            !.changes_made = @ \o descriptions]

Op(op, pr, arg) == [op |-> op, pr |-> pr, arg |-> arg]

\* create_branch_commit_and_pr with the pull request created before the push
create_branch_commit_and_pr_pushLast(pr_plan, i, answer) ==
    IF answer = "None" THEN <<>>
    ELSE IF answer = "checkout raises"
    THEN << Op("checkout_branch", i, pr_plan.branch_name) >>
    ELSE << Op("checkout_branch", i, pr_plan.branch_name),
            Op("create_pull", i, [head |-> pr_plan.branch_name,
                                  base |-> pr_plan.base_branch]),
            Op("add_files", i, pr_plan.files_to_commit),
            Op("commit", i, <<>>),
            Op("push_branch", i, pr_plan.branch_name) >>

\* io_layer.py: IOLayer.create_branch_commit_and_pr and create_pull_request,
\* as the operations carried out for the i-th PR plan.  In dry-run mode every
\* method only prints.
create_branch_commit_and_pr(pr_plan, i, answer) ==
    LET pushed == << Op("checkout_branch", i, pr_plan.branch_name),
                     Op("add_files", i, pr_plan.files_to_commit),
                     Op("commit", i, <<>>),
                     Op("push_branch", i, pr_plan.branch_name) >>
        created == pushed \o << Op("create_pull", i, [head |-> pr_plan.branch_name,
                                                      base |-> pr_plan.base_branch]) >>
    IN  CASE answer = "None" -> <<>>
          [] answer = "checkout raises" ->
                 << Op("checkout_branch", i, pr_plan.branch_name) >>
          [] answer = "push raises" -> pushed
          [] OTHER -> IF pr_plan.auto_merge
                      THEN Append(created, Op("_attempt_auto_merge", i, <<>>))
                      ELSE created

\* The repository as git leaves it: the branch checked out, for every local
\* branch the files committed on it since the run began, the files written
\* to the working tree and not committed, the files staged, for every branch
\* pushed the files committed on it at the push, and the pull requests
git_at(branch) ==
    [HEAD |-> branch, refs |-> (branch :> {}), worktree |-> {}, index |-> {},
     remote |-> <<>>, pulls |-> <<>>]

\* io_layer.py: what the call of one IOLayer method does to the repository.
\* git checkout -b of a branch that exists fails and changes nothing.
git_apply(git, call) ==
    CASE call.op = "write_file_changes" ->
             [git EXCEPT !.worktree = @ \cup Range(call.arg)]
      [] call.op = "checkout_branch" ->
             IF call.arg \in DOMAIN git.refs THEN git
             ELSE [git EXCEPT !.HEAD = call.arg,
                              !.refs = (call.arg :> git.refs[git.HEAD]) @@ @]
      [] call.op = "add_files" ->
             [git EXCEPT !.index = @ \cup (Range(call.arg) \cap git.worktree)]
      [] call.op = "commit" ->
             [git EXCEPT !.refs[git.HEAD] = @ \cup git.index,
                         !.worktree = @ \ git.index,
                         !.index = {}]
      [] call.op = "push_branch" ->
             [git EXCEPT !.remote = Append(@, [branch |-> call.arg,
                                               files  |-> git.refs[call.arg]])]
      [] call.op = "create_pull" ->
             [git EXCEPT !.pulls = Append(@, call.arg)]
      [] OTHER -> git

RECURSIVE git_replay(_, _)
git_replay(calls, git) ==
    IF calls = <<>> THEN git
    ELSE git_replay(Tail(calls), git_apply(git, Head(calls)))

\* An execution together with the repository its calls leave
with_git(done, git) == [git |-> git_replay(done.calls, git)] @@ done

RECURSIVE pr_plans_from(_, _, _, _)
\* The loop of _execute_pr_plans from the i-th PR plan on; st is the result
\* so far, the calls made, the answers received and whether a call raised
pr_plans_from(plan, answers, i, st) ==
    IF i > Len(plan.pr_plans) THEN st
    ELSE IF plan.dry_run THEN pr_plans_from(plan, answers, i + 1, st)
    ELSE LET pr_plan == plan.pr_plans[i]
             relevant(fc) == fc.file_path \in Range(pr_plan.files_to_commit)
             relevant_file_changes == SelectSeq(plan.file_changes, relevant)
             called ==
                 [st EXCEPT
                     !.calls = @ \o
                         << Op("write_file_changes", i,
                               [n \in DOMAIN relevant_file_changes |->
                                   relevant_file_changes[n].file_path]) >>
                         \o create_branch_commit_and_pr(pr_plan, i, answers[i]),
                     !.received = Append(@, answers[i])]
         IN  CASE answers[i] \in {"checkout raises", "push raises", "merge raises"} ->
                      [called EXCEPT !.raised = TRUE]
               [] answers[i] = "url" ->
                      pr_plans_from(plan, answers, i + 1,
                          [called EXCEPT !.result.pr_urls = Append(@, [pull |-> i])])
               [] OTHER ->
                      pr_plans_from(plan, answers, i + 1,
                          [called EXCEPT !.result.errors =
                              Append(@, [message |-> "Failed to create PR",
                                         pr_plan |-> i])])

_execute_pr_plans(plan, answers, st) == pr_plans_from(plan, answers, 1, st)

execute_plan(plan, answers) ==
    LET start == [result   |-> ExecutionResult(plan.dry_run),
                  calls    |-> <<>>,
                  received |-> <<>>,
                  raised   |-> FALSE]
        written == [start EXCEPT !.result = _execute_file_changes(plan, start.result)]
        done    == _execute_pr_plans(plan, answers, written)
    IN  IF ~has_changes(plan) THEN start
        ELSE IF done.raised
        THEN [done EXCEPT !.result.success = FALSE,
                          !.result.errors =
                              Append(@, [message |-> "Execution failed",
                                         pr_plan |-> Len(done.received)])]
        ELSE done

(***************************************************************************)
(* SpecExec: one execution.  Init draws a plan that prepare_plan returns    *)
(* and whether the IOLayer is in dry-run mode; ExecutePlan is               *)
(* execute_plan(plan, io) with what the IOLayer's calls do.                 *)
(***************************************************************************)
ExecEnvironments ==
    {[env EXCEPT !.DRY_RUN = dry] :
        env \in {e \in Environments : e.GROUPING_STRATEGY = "unset"},
        dry \in {"unset", "true"}}

\* The manifest of every stack the run reads is up to date or stale
ExecDisks(env) ==
    {d \in Disks(env) : \A s \in StacksRead(env) : d[s].read = "ok"}

ExecInit ==
    /\ \E env \in ExecEnvironments :
         \E disk \in ExecDisks(env) :
           \E suffixes \in [1..PRCount(from_env(env), Listing, disk, DeclaredClouds)
                               -> Suffixes] :
             \E outcome \in {prepare_plan(from_env(env), Listing, disk,
                                          DeclaredClouds, suffixes)} :
                 /\ outcome.status = "ok"
                 /\ \E io_dry_run \in BOOLEAN :
                      exe = [plan       |-> outcome.plan,
                             io_dry_run |-> io_dry_run,
                             git        |-> git_at(
                                 IF outcome.switched = <<>> THEN c_main
                                 ELSE switch_branch([dry_run |-> io_dry_run,
                                                     branch  |-> c_main],
                                                    outcome.switched).branch),
                             pc         |-> "planned",
                             result     |-> ExecutionResult(outcome.plan.dry_run),
                             calls      |-> <<>>,
                             received   |-> <<>>,
                             raised     |-> FALSE]
    /\ GroupIdle /\ CalcIdle /\ PlanIdle /\ MergeIdle /\ ClassifyIdle

ExecutePlan ==
    /\ exe.pc = "planned"
    /\ \E answers \in [DOMAIN exe.plan.pr_plans ->
                           IF exe.io_dry_run THEN {"None"}
                           ELSE {"url", "checkout raises", "push raises",
                                 "merge raises"}] :
          /\ \A i \in DOMAIN answers :
                /\ answers[i] = "merge raises" => exe.plan.pr_plans[i].auto_merge
                /\ ~exe.io_dry_run =>
                      (answers[i] = "checkout raises" <=>
                          \E j \in 1..(i - 1) : exe.plan.pr_plans[j].branch_name =
                                                 exe.plan.pr_plans[i].branch_name)
          /\ exe' = [plan |-> exe.plan, io_dry_run |-> exe.io_dry_run,
                     pc |-> "executed"]
                    @@ with_git(execute_plan(exe.plan, answers), exe.git)
    /\ UNCHANGED notExec

ExecNext == ExecutePlan

SpecExec == ExecInit /\ [][ExecNext]_vars

(***************************************************************************)
(* Claims about the executor (SpecExec).                                   *)
(***************************************************************************)
Executed == exe.pc = "executed"

\* The PR plans whose call did not give a URL, among those called
FailedCalls == {i \in DOMAIN exe.received : exe.received[i] # "url"}

\* C8: in a real (not dry) execution of a plan with changes, every PR plan
\* is attempted whatever happened to the ones before it, every attempt that
\* returned no URL or raised is recorded in the errors, and the URLs of the
\* pull requests created stay in pr_urls.
C8_FailedPRDoesNotStopTheOthers ==
    (Executed /\ ~exe.plan.dry_run /\ has_changes(exe.plan)) =>
        /\ Len(exe.received) = Len(exe.plan.pr_plans)
        /\ Len(exe.result.errors) = Cardinality(FailedCalls)
        /\ Range(exe.result.pr_urls) =
               {[pull |-> i] : i \in DOMAIN exe.received \ FailedCalls}

\* The place of an operation in the sequence for one PR
OpRank ==
    [write_file_changes |-> 1, checkout_branch |-> 2, add_files |-> 3, commit |-> 4,
     push_branch |-> 5, create_pull |-> 6, _attempt_auto_merge |-> 7]

\* The sequence for the j-th PR plan ran to its end
SequenceComplete(j) ==
    \/ exe.io_dry_run
    \/ /\ \E a \in DOMAIN exe.calls :
             exe.calls[a].pr = j /\ exe.calls[a].op = "create_pull"
       /\ exe.plan.pr_plans[j].auto_merge =>
             \E a \in DOMAIN exe.calls :
                 exe.calls[a].pr = j /\ exe.calls[a].op = "_attempt_auto_merge"

MultiStagePlan == exe.plan.multi_stage /\ exe.plan.strategy = "production"

\* The stage of a PR plan of a multi-stage plan, by the stacks it commits
IsDevPR(i) == exe.plan.pr_plans[i].files_to_commit[1][1] \in dev_stack_names

\* C11: execute_plan handles the PR plans one at a time in the order of
\* plan.pr_plans: the operations of one PR (write files, create branch, add,
\* commit, push, create PR, auto-merge) come in this order, none of them
\* after an operation of a later PR, and a PR's sequence has run to its end
\* before the next PR starts; so in a multi-stage plan every prod PR exists
\* before a dev PR is created or auto-merged.
C11_OnePRAtATimeInPlanOrder ==
    Executed =>
        /\ \A a, b \in DOMAIN exe.calls :
              (a < b) =>
                  /\ exe.calls[a].pr <= exe.calls[b].pr
                  /\ exe.calls[a].pr = exe.calls[b].pr =>
                         OpRank[exe.calls[a].op] < OpRank[exe.calls[b].op]
                  /\ exe.calls[a].pr < exe.calls[b].pr =>
                         SequenceComplete(exe.calls[a].pr)
        /\ \A b \in DOMAIN exe.calls :
              ( /\ MultiStagePlan
                /\ exe.calls[b].op \in {"create_pull", "_attempt_auto_merge"}
                /\ IsDevPR(exe.calls[b].pr) ) =>
                  \A p \in DOMAIN exe.plan.pr_plans :
                      ~IsDevPR(p) =>
                          \E a \in 1..(b - 1) :
                              exe.calls[a].pr = p /\ exe.calls[a].op = "create_pull"

\* A multi-stage plan with two prod PRs and a dev PR that was auto-merged
C11_Witness ==
    /\ Executed /\ MultiStagePlan
    /\ \E p, q, d \in DOMAIN exe.plan.pr_plans :
          /\ p < q /\ ~IsDevPR(p) /\ ~IsDevPR(q) /\ IsDevPR(d)
          /\ \E b \in DOMAIN exe.calls :
                exe.calls[b].pr = d /\ exe.calls[b].op = "_attempt_auto_merge"

(***************************************************************************)
(* The auto-merge retry loops: IOLayer._attempt_auto_merge (called by      *)
(* IOLayer.create_pull_request) and the loop of pr_manager.create_pr.      *)
(* One action is one pass of the loop body: pr.update(), the test of       *)
(* pr.mergeable and pr.merge(), with what the API answers.                 *)
(***************************************************************************)
\* io_layer.py: def _attempt_auto_merge(self, pr, max_retries: int = 5, ...)
max_retries == 5

\* pr_manager.py: max_retries = 5
create_pr_max_retries == 5

\* pr.update() leaves pr.mergeable None, False or True, or raises
UpdateAnswers == {"None", "False", "True", "500"}

\* pr.merge() succeeds or raises a GithubException: 405 with a message
\* saying the PR is not mergeable, 405 saying a merge is already in
\* progress, or another status
MergeAnswers == {"merged", "405 not mergeable", "405 merge already in progress", "403"}

\* io_layer.py: e.status == 405 and "not mergeable" in error_message
io_layer_retries(error) == error = "405 not mergeable"

\* pr_manager.py: e.status == 405 and ("not mergeable" in error_message or
\* "merge already in progress" in error_message)
create_pr_retries(error) ==
    error \in {"405 not mergeable", "405 merge already in progress"}

Retries(loop, error) ==
    IF loop = "io_layer" THEN io_layer_retries(error) ELSE create_pr_retries(error)

Budget(loop) == IF loop = "io_layer" THEN max_retries ELSE create_pr_max_retries

\* One pass of the loop body, `attempt` counting the passes made.  The loop
\* ends ("returned") on break and when range(max_retries) is used up, and
\* with the exception re-raised ("raised") in the except clause.
LoopPass(m, mergeable, merge_answer) ==
    LET counted == [m EXCEPT !.attempt = @ + 1, !.polls = @ + 1]
        used_up == counted.attempt = Budget(m.loop)
        except(error, st) ==
            IF Retries(m.loop, error) /\ m.attempt < Budget(m.loop) - 1
            THEN [st EXCEPT !.last = error]                      \* sleep, next pass
            ELSE [st EXCEPT !.last = error, !.pc = "raised", !.error = error]
    IN  CASE mergeable = "500" -> except("500", counted)
          [] mergeable = "None" ->
                 [counted EXCEPT !.last = "undetermined",
                                 !.pc = IF used_up THEN "returned" ELSE "merging"]
          [] mergeable = "False" ->
                 [counted EXCEPT !.last = "conflict", !.pc = "returned"]
          [] OTHER ->
                 IF merge_answer = "merged"
                 THEN [counted EXCEPT !.merges = @ + 1, !.merged = @ + 1,
                                      !.last = "merged", !.pc = "returned"]
                 ELSE except(merge_answer, [counted EXCEPT !.merges = @ + 1])

(***************************************************************************)
(* SpecMerge: a pull request is created with or without auto-merge by one  *)
(* of the two implementations; the loop runs against the API's answers.    *)
(***************************************************************************)
MergeInit ==
    /\ \E loop \in {"io_layer", "create_pr"}, auto_merge \in BOOLEAN :
          mrg = [loop |-> loop, auto_merge |-> auto_merge, pc |-> "created",
                 attempt |-> 0, polls |-> 0, merges |-> 0, merged |-> 0,
                 last |-> "", error |-> ""]
    /\ GroupIdle /\ CalcIdle /\ PlanIdle /\ ExecIdle /\ ClassifyIdle

\* if auto_merge: self._attempt_auto_merge(pr) / if should_automerge: ...
StartAutoMerge ==
    /\ mrg.pc = "created"
    /\ mrg' = [mrg EXCEPT !.pc = IF mrg.auto_merge THEN "merging" ELSE "returned"]
    /\ UNCHANGED notMerge

AttemptIOLayer ==
    /\ mrg.pc = "merging" /\ mrg.loop = "io_layer"
    /\ \E mergeable \in UpdateAnswers, merge_answer \in MergeAnswers :
          mrg' = LoopPass(mrg, mergeable, merge_answer)
    /\ UNCHANGED notMerge

AttemptCreatePR ==
    /\ mrg.pc = "merging" /\ mrg.loop = "create_pr"
    /\ \E mergeable \in UpdateAnswers, merge_answer \in MergeAnswers :
          mrg' = LoopPass(mrg, mergeable, merge_answer)
    /\ UNCHANGED notMerge

MergeNext == StartAutoMerge \/ AttemptIOLayer \/ AttemptCreatePR

SpecMerge == MergeInit /\ [][MergeNext]_vars

(***************************************************************************)
(* Claims about the auto-merge loops (SpecMerge).                          *)
(***************************************************************************)
Finished == mrg.pc \in {"returned", "raised"}

\* C9: IOLayer._attempt_auto_merge never ends silently unmerged: when it
\* ends with the PR not merged because mergeability stayed undetermined or
\* the PR conflicts, it has raised the auto-merge-failed error; it returns
\* normally only after a successful merge; a conflict ends the loop.
C9_NeverSilentlyUnmerged ==
    (mrg.loop = "io_layer" /\ mrg.auto_merge /\ Finished) =>
        /\ (mrg.merged = 0 /\ mrg.last \in {"undetermined", "conflict"}) =>
               (mrg.pc = "raised" /\ mrg.error = "AutoMergeError")
        /\ mrg.pc = "returned" => mrg.merged = 1

\* C10: the auto-merge loop ends within max_retries polls; a 405 answer
\* saying "not mergeable" or "merge already in progress" is raised only
\* when the retry budget is used up; any other error is raised on its first
\* occurrence; after a successful merge nothing more is polled or merged.
C10_RetriesBothTransient405 ==
    /\ mrg.polls <= Budget(mrg.loop)
    /\ mrg.polls = Budget(mrg.loop) => Finished
    /\ (mrg.pc = "raised"
        /\ mrg.error \in {"405 not mergeable", "405 merge already in progress"}) =>
           mrg.attempt = Budget(mrg.loop)
    /\ mrg.last \in {"403", "500"} => (mrg.pc = "raised" /\ mrg.error = mrg.last)
    /\ mrg.merged <= 1
    /\ mrg.merged = 1 => mrg.pc = "returned"

(***************************************************************************)
(* Claims about a dry run (SpecExec): DRY_RUN=true, which the plan carries *)
(* as plan.dry_run and the IOLayer as its dry_run.                         *)
(***************************************************************************)
DryRun == exe.plan.dry_run /\ exe.io_dry_run

\* The description of every planned file change, in the plan's order
PlannedDescriptions ==
    [n \in DOMAIN exe.plan.file_changes |-> exe.plan.file_changes[n].change_description]

\* C22: a dry run, planning then execution, calls no IOLayer method that
\* acts: no manifest is written, no branch created or switched to, nothing
\* staged, committed or pushed, no pull request created or merged; the
\* result has no pr_urls and no files_written, and changes_made is the
\* set of the descriptions of the planned file changes.
C22_DryRunTouchesNothing ==
    (Executed /\ DryRun) =>
        /\ exe.calls = <<>>
        /\ exe.git = git_at(c_main)
        /\ exe.result.pr_urls = <<>>
        /\ exe.result.files_written = <<>>
        /\ Range(exe.result.changes_made) = Range(PlannedDescriptions)

(***************************************************************************)
(* SpecValidate: one run from the environment on.  Init draws the          *)
(* environment and the folders of the repository; Validate is              *)
(* EnvironmentConfig.validate on the configuration from_env built; the run *)
(* exits with status 1 when validate reports errors, and plans and         *)
(* executes otherwise.                                                     *)
(***************************************************************************)
c_blank == <<" ">>

\* HELM_CHART and GH_TOKEN set or not, IMAGE_TAG not set, blank, of no tag
\* format, a dev and a production tag, OVERRIDE_STACK not set, a production
\* stack and a name that is no folder, GROUPING_STRATEGY not set, a strategy
\* and a word that is none, EXTRA_TAG1 not set, without a colon and with a
\* value of no tag format and a dev tag
ValidateEnvironments ==
    {[HELM_CHART        |-> chart,
      GH_TOKEN          |-> token,
      IMAGE_TAG         |-> tag,
      OVERRIDE_STACK    |-> override,
      GROUPING_STRATEGY |-> gs,
      MULTI_STAGE       |-> "unset",
      AUTOMERGE         |-> "false",
      DRY_RUN           |-> "unset",
      EXTRA_TAG1        |-> e1,
      EXTRA_TAG2        |-> NoExtraTag] :
        chart \in {<<>>, c_chart}, token \in {"", "token"},
        tag \in {<<>>, c_blank, c_junk, c_dev_1, c_production_1},
        override \in {"", prod_stack(1), "no-such-stack"},
        gs \in {"unset", "stack", "no-such-strategy"},
        e1 \in {NoExtraTag, [path |-> <<"a">>, colon |-> FALSE, value |-> <<>>],
                [path |-> <<"a">>, colon |-> TRUE, value |-> c_junk],
                [path |-> <<"a">>, colon |-> TRUE, value |-> c_dev_1]}}

\* The folders of the repository, with or without the first production stack
ValidateListings ==
    {Listing, SelectSeq(Listing, LAMBDA item : item # prod_stack(1))}

ValidateInit ==
    /\ \E env \in ValidateEnvironments, listing \in ValidateListings :
          run = [env     |-> env,
                 config  |-> from_env(env),
                 listing |-> listing,
                 pc      |-> "configured",
                 errors  |-> {},
                 calls   |-> <<>>,
                 files_written |-> <<>>]
    /\ GroupIdle /\ CalcIdle /\ ExecIdle /\ MergeIdle /\ ClassifyIdle

\* errors = config.validate()
Validate ==
    /\ run.pc = "configured"
    /\ run' = [run EXCEPT !.pc = "validated",
                          !.errors = validate(run.config, run.env, Range(run.listing))]
    /\ UNCHANGED notPlan

\* The errors are printed and the run exits with status 1
ExitOnErrors ==
    /\ run.pc = "validated" /\ run.errors # {}
    /\ run' = [run EXCEPT !.pc = "exit 1"]
    /\ UNCHANGED notPlan

\* The manifest of every stack is stale
StaleDisk == [s \in Range(SortedStacks) |-> Manifest(c_old)]

\* What every call of the IOLayer answers when all of them succeed: a URL,
\* but for git checkout -b of a branch the run created already
answers_of(plan) ==
    [i \in DOMAIN plan.pr_plans |->
        IF \E j \in 1..(i - 1) :
              plan.pr_plans[j].branch_name = plan.pr_plans[i].branch_name
        THEN "checkout raises" ELSE "url"]

\* The run after execute_plan returned
executed(r, done) ==
    [r EXCEPT !.pc = "done",
              !.calls = done.calls,
              !.files_written = done.result.files_written]

\* The run after prepare_plan raised or returned a plan that was executed
planned_and_executed(r, outcome) ==
    IF outcome.status # "ok" THEN [r EXCEPT !.pc = "exit 1"]
    ELSE executed(r, execute_plan(outcome.plan, answers_of(outcome.plan)))

\* prepare_plan and execute_plan with an IOLayer that acts, on a repository
\* whose manifests are stale
PlanAndExecute ==
    /\ run.pc = "validated" /\ run.errors = {}
    /\ \E suffixes \in [1..PRCount(run.config, run.listing, StaleDisk, DeclaredClouds)
                            -> Suffixes] :
          run' = planned_and_executed(run, prepare_plan(run.config, run.listing, StaleDisk,
                                                        DeclaredClouds, suffixes))
    /\ UNCHANGED notPlan

ValidateNext == Validate \/ ExitOnErrors \/ PlanAndExecute

SpecValidate == ValidateInit /\ [][ValidateNext]_vars

(***************************************************************************)
(* Claims about validation (SpecValidate).                                 *)
(***************************************************************************)
Validated == run.pc # "configured"

\* An EXTRA_TAGi that is set and has no colon
ExtraTagWithoutColon(text) ==
    (text.path # <<>> \/ strip(text.value) # <<>>) /\ ~text.colon

PrimaryTag == strip(run.env.IMAGE_TAG)

ChangePaths == {calc.changes[i].path : i \in DOMAIN calc.changes}

ChangeTypeRank == [image_tag |-> 1, extra_tag |-> 2, commit_sha |-> 3]

\* The extra-tag changes, as path and value, in the order of the list
ExtraTagChanges ==
    LET is_extra(change) == change.change_type = "extra_tag"
        extra == SelectSeq(calc.changes, is_extra)
    IN  [n \in DOMAIN extra |-> [path |-> extra[n].path, value |-> extra[n].new_value]]

\* The extra tags given, without those that need no change
ExtraTagsToChange ==
    LET stale(extra_tag) ==
            navigate(calc.current_data, extra_tag.path, 1, At(<<>>))
                # StrNode(extra_tag.value)
    IN  SelectSeq(calc.extra_tags, stale)

\* C24: _apply_changes_to_data returns a changed copy for every change list
\* calculate_tag_changes computed: every level above a change's leaf is a
\* mapping (created when it was missing), the leaf of every change holds
\* the change's new value, every other path of the input is in the result
\* with its value, and the result has no further paths; the changes come in
\* the order main tag, extra tags in the order given, commit SHA.
C24_ApplySetsExactlyTheLeaves ==
    /\ calc.pc = "raised" => calc.changes = <<>>
    /\ calc.pc = "applied" =>
        /\ \A p \in ChangePaths :
              \A n \in 0..(Len(p) - 1) :
                  /\ SubSeq(p, 1, n) \in DOMAIN calc.new_data
                  /\ calc.new_data[SubSeq(p, 1, n)].kind = "map"
        /\ \A i \in DOMAIN calc.changes :
              /\ calc.changes[i].path \in DOMAIN calc.new_data
              /\ calc.new_data[calc.changes[i].path] = StrNode(calc.changes[i].new_value)
        /\ \A q \in DOMAIN calc.current_data \ ChangePaths :
              q \in DOMAIN calc.new_data /\ calc.new_data[q] = calc.current_data[q]
        /\ \A q \in DOMAIN calc.new_data \ DOMAIN calc.current_data :
              \E p \in ChangePaths : IsPrefix(q, p)
    /\ calc.pc = "computed" =>
        /\ \A i, j \in DOMAIN calc.changes :
              i < j => ChangeTypeRank[calc.changes[i].change_type]
                           <= ChangeTypeRank[calc.changes[j].change_type]
        /\ ExtraTagChanges = ExtraTagsToChange

(***************************************************************************)
(* Claims about the two grouping engines side by side (SpecGroup).         *)
(***************************************************************************)
\* What a grouping returned, as far as the pull requests depend on it: the
\* exception or, per group in order, the stacks, the base branch, the PR
\* type and the cloud provider
GroupsReturned(r) ==
    [status |-> r.status,
     groups |-> [i \in DOMAIN r.groups |->
                    [stacks         |-> Stacks(r.groups[i].changes),
                     base_branch    |-> r.groups[i].base_branch,
                     pr_type        |-> r.groups[i].pr_type,
                     cloud_provider |-> r.groups[i].cloud_provider]]]

OtherMultiStage ==
    [run.env EXCEPT !.MULTI_STAGE = IF @ = "true" THEN "unset" ELSE "true"]

\* The PR groups of an outcome: the exception or, per PR, the stacks' files,
\* the PR type and the auto-merge decision
PRGroupsOf(outcome) ==
    [status |-> outcome.status,
     groups |-> {[files      |-> outcome.plan.pr_plans[i].files_to_commit,
                  pr_type    |-> outcome.pr_groups[i].pr_type,
                  auto_merge |-> outcome.plan.pr_plans[i].auto_merge] :
                    i \in DOMAIN outcome.pr_groups}]

\* The outcome of the run with MULTI_STAGE set the other way and everything
\* else as it is
OtherOutcome ==
    LET config == from_env(OtherMultiStage)
        count  == Len(prepare_plan_on(config, run.io_layer, run.shared,
                                      [i \in 1..Len(StrategyStacks) |-> <<>>]).pr_groups)
    IN  prepare_plan_on(config, run.io_layer, run.shared,
                        [i \in 1..count |-> CHOOSE suffix \in Suffixes : TRUE])

\* C26: when GROUPING_STRATEGY is set to single, stack or cloud-multi-stage,
\* the run and the run that differs from it only in MULTI_STAGE plan the
\* same PR groups: the same partition of the files, the same PR types and
\* the same auto-merge decisions.
C26_MultiStageIgnoredWithExplicitStrategy ==
    ( /\ Prepared /\ Accepted
      /\ run.env.GROUPING_STRATEGY \in {"single", "stack", "cloud-multi-stage"} ) =>
        PRGroupsOf(run.outcome) = PRGroupsOf(OtherOutcome)

(***************************************************************************)
(* Claims about the branches of a run (SpecExec).                          *)
(***************************************************************************)
\* A run in which plan and IOLayer both act
RealRun == ~exe.plan.dry_run /\ ~exe.io_dry_run

\* The branch names of the plan are pairwise different
DistinctBranchNames ==
    \A i, j \in DOMAIN exe.plan.pr_plans :
        i # j => exe.plan.pr_plans[i].branch_name # exe.plan.pr_plans[j].branch_name

\* C27: in a run that acts, the branch created for a PR plan holds, on top
\* of the base branch, commits of that plan's files_to_commit only: no file
\* committed for a PR plan handled earlier in the run is in it.
C27_BranchCarriesOnlyItsOwnBatch ==
    (Executed /\ RealRun /\ DistinctBranchNames) =>
        \A k \in DOMAIN exe.plan.pr_plans :
            exe.plan.pr_plans[k].branch_name \in DOMAIN exe.git.refs =>
                exe.git.refs[exe.plan.pr_plans[k].branch_name]
                    \subseteq Range(exe.plan.pr_plans[k].files_to_commit)

\* The files the executor's grouping by branch name gives the i-th PR plan
FilesAttributed(i) ==
    LET file_changes == _group_files_by_pr(exe.plan)[exe.plan.pr_plans[i].branch_name]
    IN  [n \in DOMAIN file_changes |-> file_changes[n].file_path]

\* C28: the branch names of the PR plans of a plan are pairwise different,
\* so the executor's grouping by branch name gives every PR plan its own
\* files, and no PR plan's checkout -b meets a branch that an earlier PR
\* plan of the run created.
C28_BranchNamesDistinct ==
    /\ DistinctBranchNames
    /\ \A i \in DOMAIN exe.plan.pr_plans :
          FilesAttributed(i) = exe.plan.pr_plans[i].files_to_commit
    /\ (Executed /\ RealRun) => "checkout raises" \notin Range(exe.received)

(***************************************************************************)
(* Claims about the execution result (SpecExec).                           *)
(***************************************************************************)
\* C29: after execute_plan, success is true only if errors is empty, so a PR
\* plan for which no URL came back outside a dry run makes success false;
\* when the plan is no dry run, the URLs in pr_urls and the failures in
\* errors together are as many as the PR plans attempted.
C29_ResultSelfConsistent ==
    Executed =>
        /\ exe.result.success => exe.result.errors = <<>>
        /\ ~exe.plan.dry_run =>
              Len(exe.result.pr_urls) + Len(exe.result.errors) = Len(exe.received)

(***************************************************************************)
(* Claims about dev tags and production stacks (SpecStrategy).             *)
(***************************************************************************)
\* The values the i-th file change of the plan sets in its manifest
ValuesSet(i) ==
    LET changes == run.outcome.plan.file_changes[i].change_description.changes
    IN  {changes[n].new_value : n \in DOMAIN changes}

\* C30: in the plan of a run whose configuration validate accepted, no file
\* change of a production stack's manifest sets a value that is a dev tag,
\* as the image tag or as an extra tag's value, whether the stack is a
\* target by strategy or by OVERRIDE_STACK.
C30_NoDevTagInProductionStack ==
    (Prepared /\ Accepted /\ run.outcome.status = "ok") =>
        \A i \in DOMAIN run.outcome.plan.file_changes :
            classify_stack(run.outcome.plan.file_changes[i].file_path[1]).is_production =>
                \A value \in ValuesSet(i) : detect_tag_type(value) # "dev"

====
